---- MODULE Spec2Model ----
(***************************************************************************)
(* Offline-resilience layer of the pwa-assets repository.                  *)
(*                                                                         *)
(* Part I   the pending-orders write queue: API.createOrder and            *)
(*          API.saveOfflineOrder (src/pwa-main.js), the 'sync' listeners   *)
(*          and syncOrders (src/frontend/service-worker.js) and            *)
(*          syncOfflineOrders (src/pwa-main.js, worker v2.1).              *)
(*          Specifications: Spec, FairSpec.                                *)
(*                                                                         *)
(* Part II  the two service-worker scripts, v2.0                           *)
(*          (src/frontend/service-worker.js) and v2.1 (src/pwa-main.js):   *)
(*          install and activate listeners, the fetch routers, the caching *)
(*          strategies and limitCacheSize.                                 *)
(*          Specifications: SpecSW (lifecycle), SpecFetch (fetch handling).*)
(*                                                                         *)
(* Part III the responses of the fetch handlers: what each strategy of the *)
(*          two workers hands to event.respondWith, step by step.          *)
(*          Specifications: SpecRoute (classification), SpecServe.         *)
(*                                                                         *)
(* Part IV  LotusDB (src/pwa-main.js): the Store wrapper of an IndexedDB   *)
(*          object store with its in-memory read cache, the TTL sweep,     *)
(*          SyncEngine.pull and push, and the product search.              *)
(*          Specifications: SpecStore, SpecSync, SpecSearch.               *)
(***************************************************************************)
EXTENDS Integers, Sequences, FiniteSets, Bags, TLC

(***************************************************************************)
(* Bounds of the model.                                                    *)
(***************************************************************************)
\* The clock runs over the milliseconds 0..MaxTime.
MaxTime == 3
\* Number of API.createOrder calls a behaviour makes.
MaxCalls == 3
\* Number of 'sync' events the worker may be handling at the same time.
MaxDrains == 2
\* Number of cache.put calls the fetch handlers of a behaviour issue.
MaxPuts == 3
\* Number of fetch handlers whose cache work may be outstanding at once.
MaxInFlight == 2
\* Number of 'fetch' events whose handling a behaviour of SpecServe follows.
MaxRuns == 2
\* The longest text, in characters, that is stored or asked for.
MaxText == 3
\* The longest fragment of the location, in tokens.
MaxHash == 4

CallIds == 1..MaxCalls

VARIABLES
  now,        \* Date.now() at the latest step that read the clock, in ms
  variant,    \* the service-worker script in control: "v20" or "v21"
  hostSync,   \* 'serviceWorker' in navigator: the host offers background sync
  pending,    \* the rows of the 'pending-orders' object store (keyPath id)
  nCalls,     \* the number of API.createOrder calls made so far
  lastCall,   \* how the latest API.createOrder call ended
  syncTags,   \* the one-shot sync registrations the host holds
  drains,     \* the bag of the syncOrders runs in progress
  acked,      \* history: <<id, data>> of every POST answered with 2xx
  added,      \* history: every row store.add has stored
  swState,    \* lifecycle state of the worker: parsed, installed, activated,
              \* redundant
  skipWaitingFlag, \* self.skipWaiting() has been called
  precacheFailed,  \* history: cache.addAll of the install listener rejected
  previous,   \* the worker this one replaces: "none", or "same" (an earlier
              \* deployment of this script)
  control,    \* who controls the open pages: "none", "previous" or "this"
  caches,     \* CacheStorage: cache name -> entries in insertion order
  deletedLog, \* the names logged by 'Deleting old cache:' on activation
  handlers,   \* fetch handlers with a cache.put or limitCacheSize outstanding
  nPuts,      \* the number of cache.put calls issued so far
  nImages,    \* the number of distinct image URLs put so far
  nPages,     \* the number of distinct page URLs put so far
  orderly,    \* history: every put so far was of a new key and was issued
              \* while no other handler had work outstanding
  handlings,  \* the fetch handlings followed, in the order of their events
  swClock,    \* the worker's clock (new Date()), in minutes since the epoch
  routeReq,   \* the request handed to the 'fetch' listener (classification)
  routeOf,    \* what the listener made of routeReq
  storeName,  \* the object store of LotusDB that is observed
  idb,        \* its records in IndexedDB, by key
  memoryCache,\* the entries of db.memoryCache for that store, by key
  dbClock,    \* Date.now() in the page that owns the LotusDB instance, in ms
  callResult, \* how the latest call on the Store or on LotusDB settled
  syncMeta,   \* the lastSync of the store's row in 'syncMeta': <<>> or <<t>>
  syncRun,    \* the SyncEngine.pull or push call in progress
  searchRun,  \* the latest Store.search call: query, product and result
  updating,   \* the Store.update calls in progress and the IndexedDB requests
              \* they have issued, in the order of their transactions
  msgRun,     \* the latest 'message' event of the worker and what came of it
  navRun      \* the latest Router.handleRoute call and the handlers it invoked

queueVars == <<hostSync, pending, nCalls, lastCall, syncTags, drains, acked, added>>
swVars == <<swState, skipWaitingFlag, precacheFailed, previous, control, caches,
            deletedLog, handlers, nPuts, nImages, nPages, orderly>>
serveVars == <<handlings, swClock, routeReq, routeOf>>
dbVars == <<storeName, idb, memoryCache, dbClock, callResult, syncMeta, syncRun,
           searchRun, updating>>
vars == <<now, variant, msgRun, navRun, queueVars, swVars, serveVars, dbVars>>

(***************************************************************************)
(* Part I: the pending-orders queue                                        *)
(***************************************************************************)

\* CONFIG.API_URL, the single remote endpoint (this.baseUrl).
API_URL == "https://script.google.com/macros/s/.../exec"

\* The tags the two 'sync' listeners look at.
SyncTagNames == {"sync-orders", "sync-cart"}

\* Outcomes of one fetch(): a 2xx response, a response outside 2xx, or a
\* rejected promise (no connectivity).
FetchOutcomes == {"ok", "notok", "reject"}

\* The order payload of call c. Payloads are pairwise distinct so that a row
\* can be traced to the call that queued it.
OrderData(c) == c

\* The row API.saveOfflineOrder builds at time t: both Date.now() reads of the
\* one object literal.
NewRow(c, t) ==
  [id |-> t, data |-> OrderData(c), apiUrl |-> API_URL, createdAt |-> t]

\* IDBObjectStore.add on a store with keyPath 'id': the request succeeds iff
\* no row holds that key; an existing row is never overwritten.
AddSucceeds(store, row) == \A r \in store : r.id # row.id

\* IDBObjectStore.delete(id): removes the row under that key, if any.
StoreDelete(store, id) == {r \in store : r.id # id}

\* IDBObjectStore.getAll(): every row, in ascending key order.
RECURSIVE GetAll(_)
GetAll(store) ==
  IF store = {} THEN <<>>
  ELSE LET first == CHOOSE r \in store : \A q \in store : r.id <= q.id
       IN  <<first>> \o GetAll(store \ {first})

\* saveOfflineOrder, the background-sync registration. The condition
\*   'serviceWorker' in navigator && 'sync' in registration
\* reads the identifier `registration`, which is declared by the const inside
\* the if block and by nothing in the scope of the condition: with a service
\* worker in the host the read throws a ReferenceError (caught and logged by
\* the enclosing catch); without one the && short-cuts and the block is
\* skipped. register('sync-orders') is reached in neither case.
RegisterOutcome(hasServiceWorker) ==
  IF hasServiceWorker THEN "ReferenceError" ELSE "skipped"

TagsAfterSave(tags, hasServiceWorker) ==
  IF RegisterOutcome(hasServiceWorker) = "registered"
  THEN tags \cup {"sync-orders"}
  ELSE tags

\* The end of a createOrder call: the call, what its caller got ("returned":
\* the response body, or the error thrown) and what saveOfflineOrder did
\* ("none": not run, "stored", "openFailed", "addRejected").
NoCall == [call |-> 0, result |-> "none", save |-> "none"]
\* A run of syncOrders: where it is, the rows it read, the index of the row
\* the loop is at, and whether the delivery of an earlier row of the batch
\* failed.
IdleDrain == [pc |-> "idle", orders |-> <<>>, idx |-> 1, failed |-> FALSE]

QueueInit ==
  /\ now = 0
  /\ hostSync \in BOOLEAN
  /\ pending = {}
  /\ nCalls = 0
  /\ lastCall = NoCall
  /\ syncTags = {}
  /\ drains = EmptyBag
  /\ acked = {}
  /\ added = {}

\* Calls are numbered in the order they are made.
MayCall(c) == c = nCalls + 1

\* The clock never runs backwards: a step that reads it at t finds t >= now.
\* Orders are placed before the last modelled millisecond.
ClockReads == {t \in 0..(MaxTime - 1) : t >= now}

\* API.createOrder(orderData), the fetch resolves and response.json() parses:
\* the body is returned, whatever the response's status. Nothing is queued.
CreateOrderReturns(c) ==
  /\ MayCall(c)
  /\ nCalls' = c
  /\ lastCall' = [call |-> c, result |-> "returned", save |-> "none"]
  /\ UNCHANGED <<now, variant, msgRun, navRun, dbVars, hostSync, pending, syncTags, drains, acked, added, swVars, serveVars>>

\* API.createOrder(orderData), the fetch rejects (or json() throws): the catch
\* block logs, runs saveOfflineOrder and rethrows the network error.
\* saveOfflineOrder catches everything it throws and only logs it.
\* `await store.add(...)` awaits an IDBRequest, which is no promise: a rejected
\* add (ConstraintError on an id already in the store) is observed by nobody.
CreateOrderFails(c, t, dbOpens) ==
  /\ MayCall(c)
  /\ t \in ClockReads
  /\ now' = t
  /\ LET row    == NewRow(c, t)
         stored == dbOpens /\ AddSucceeds(pending, row)
         save   == IF ~dbOpens THEN "openFailed"
                   ELSE IF stored THEN "stored" ELSE "addRejected"
     IN  /\ pending' = IF stored THEN pending \cup {row} ELSE pending
         /\ added' = IF stored THEN added \cup {row} ELSE added
         /\ syncTags' = IF dbOpens THEN TagsAfterSave(syncTags, hostSync) ELSE syncTags
         /\ nCalls' = c
         /\ lastCall' = [call |-> c, result |-> "network error", save |-> save]
  /\ UNCHANGED <<variant, msgRun, navRun, dbVars, hostSync, drains, acked, swVars, serveVars>>

\* What the 'sync' listener of the controlling worker starts for a tag.
\* v2.0: syncOrders for 'sync-orders', syncCart (a log line) for 'sync-cart'.
\* v2.1: syncOfflineOrders for 'sync-orders', which is a stub that only logs.
StartsDrain(v, tag) == v = "v20" /\ tag = "sync-orders"

\* syncOrders up to the loop: openIndexedDB and getFromIndexedDB. A rejection
\* of either goes to the outer catch (logged); an empty result returns at once.
DrainStart(dbOpens) ==
  LET orders == IF dbOpens THEN GetAll(pending) ELSE <<>>
  IN  IF Len(orders) = 0 THEN IdleDrain
      ELSE [IdleDrain EXCEPT !.pc = "loop", !.orders = orders]

\* The runs in progress with run `old` replaced by its next state `new`; a
\* run that returned leaves the bag.
Continue(runs, old, new) ==
  LET rest == runs (-) SetToBag({old})
  IN  IF new = IdleDrain THEN rest ELSE rest (+) SetToBag({new})

\* The host dispatches a 'sync' event and the listener dispatches on its tag.
\* `registered`: the event is the firing of a one-shot registration the host
\* holds, which it consumes; otherwise the registration came from outside
\* API.saveOfflineOrder (another script of the scope, the developer tools)
\* and is not tracked. At most MaxDrains runs are in progress at a time.
SyncEvent(tag, registered, dbOpens) ==
  /\ registered => tag \in syncTags
  /\ BagCardinality(drains) < MaxDrains
  /\ syncTags' = IF registered THEN syncTags \ {tag} ELSE syncTags
  /\ drains' = IF StartsDrain(variant, tag)
               THEN Continue(drains, IdleDrain, DrainStart(dbOpens))
               ELSE drains
  /\ UNCHANGED <<now, variant, msgRun, navRun, dbVars, hostSync, pending, nCalls, lastCall, acked, added, swVars, serveVars>>

\* The order the loop is at.
CurrentOrder(dr) == dr.orders[dr.idx]

\* The loop moves to the next order, or syncOrders returns after the last one.
DrainAdvance(dr) ==
  IF dr.idx < Len(dr.orders)
  THEN [dr EXCEPT !.pc = "loop", !.idx = @ + 1]
  ELSE IdleDrain

\* A fail-fast drain: the first failed delivery ends the batch.
DrainOnFailureFailFast(dr) == IdleDrain

\* An order whose delivery failed: a response outside 2xx falls through the
\* if, a rejected fetch is caught by the catch inside the loop body; either
\* way the loop goes on with the next order.
DrainOnFailure(dr) == DrainAdvance([dr EXCEPT !.failed = TRUE])

\* Removing whatever the server answered.
ShouldRemoveAnyResponse(outcome) == outcome # "reject"

\* if (response.ok): only a 2xx answer leads to removeFromIndexedDB.
ShouldRemove(outcome) == outcome = "ok"

\* A server's answer to the replay of a row arrives later than the
\* millisecond in which the row was stored; a rejection may come at once.
ArrivalTime(outcome, order) ==
  IF outcome # "reject" /\ now <= order.id THEN order.id + 1 ELSE now

\* for (const order of orders): the POST of the next order is issued and
\* settles.
DrainPost(dr, outcome) ==
  /\ dr.pc = "loop"
  /\ LET order == CurrentOrder(dr)
     IN  /\ now' = ArrivalTime(outcome, order)
         /\ acked' = IF outcome = "ok" THEN acked \cup {<<order.id, order.data>>}
                     ELSE acked
         /\ drains' = Continue(drains, dr,
                               IF ShouldRemove(outcome)
                               THEN [dr EXCEPT !.pc = "removing"]
                               ELSE DrainOnFailure(dr))
  /\ UNCHANGED <<variant, msgRun, navRun, dbVars, hostSync, pending, nCalls, lastCall, syncTags, added, swVars, serveVars>>

\* removeFromIndexedDB(db, 'pending-orders', order.id), then notifyClients.
DrainRemove(dr) ==
  /\ dr.pc = "removing"
  /\ pending' = StoreDelete(pending, CurrentOrder(dr).id)
  /\ drains' = Continue(drains, dr, DrainAdvance(dr))
  /\ UNCHANGED <<now, variant, msgRun, navRun, dbVars, hostSync, nCalls, lastCall, syncTags, acked, added, swVars, serveVars>>

QueueNext ==
  \/ \E c \in CallIds : CreateOrderReturns(c)
  \/ \E c \in CallIds, t \in 0..MaxTime, dbOpens \in BOOLEAN :
       CreateOrderFails(c, t, dbOpens)
  \/ \E tag \in SyncTagNames, registered, dbOpens \in BOOLEAN :
       SyncEvent(tag, registered, dbOpens)
  \/ \E dr \in BagToSet(drains), o \in FetchOutcomes : DrainPost(dr, o)
  \/ \E dr \in BagToSet(drains) : DrainRemove(dr)

(***************************************************************************)
(* Part II: the service workers                                            *)
(***************************************************************************)

\* A cache name is the sequence of the fragments its template literal
\* concatenates. Every name of the model that begins with the characters of
\* a prefix has that prefix as its first fragment, so String.startsWith is
\* the comparison of leading fragments.
StartsWith(name, prefix) ==
  /\ Len(name) >= Len(prefix)
  /\ SubSeq(name, 1, Len(prefix)) = prefix

\* --- worker v2.0, src/frontend/service-worker.js -------------------------

VERSION == "2.0.0"
CACHE_PREFIX == <<"lotus-glass-pwa">>

\* `${CACHE_PREFIX}-<role>-v${VERSION}`
CACHES ==
  [STATIC  |-> CACHE_PREFIX \o <<"-static-v", VERSION>>,
   DYNAMIC |-> CACHE_PREFIX \o <<"-dynamic-v", VERSION>>,
   IMAGES  |-> CACHE_PREFIX \o <<"-images-v", VERSION>>,
   API     |-> CACHE_PREFIX \o <<"-api-v", VERSION>>,
   FONTS   |-> CACHE_PREFIX \o <<"-fonts-v", VERSION>>]

\* Object.values(CACHES)
CachesValues == {CACHES[k] : k \in DOMAIN CACHES}

CACHE_LIMITS == [DYNAMIC |-> 50, IMAGES |-> 100, API |-> 30]

\* --- worker v2.1, src/pwa-main.js -----------------------------------------

VERSION_21 == "2.1.0"
CACHE_PREFIX_21 == <<"pvt-pwa">>
\* `${CACHE_PREFIX}-v${VERSION}`
CACHE_NAME == CACHE_PREFIX_21 \o <<"-v", VERSION_21>>

\* The cacheName fields of CACHE_PATTERNS, `${CACHE_PREFIX}-<role>`.
PatternCache(role) == CACHE_PREFIX_21 \o <<role>>

\* --- URLs and requests ----------------------------------------------------

\* The origin the pages are served from.
SITE == "30namthuytinhphaleviettiep.blogspot.com"

\* A URL is the record of its fragments; its href is
\* scheme // host dir name n ext query (n is left out when it is 0).
Url(scheme, host, dir, name, n, ext, query) ==
  [scheme |-> scheme, host |-> host, dir |-> dir, name |-> name, n |-> n,
   ext |-> ext, query |-> query]

SiteUrl(dir, name, n, ext) == Url("https:", SITE, dir, name, n, ext, "")

\* The n-th image and the n-th page of the site.
ImageUrl(n) == SiteUrl("/img/", "photo", n, ".png")
PageUrl(n) == SiteUrl("/p/", "page", n, ".html")

ApiUrl == Url("https:", "script.google.com", "/macros/", "exec", 0, "", "")
FontUrl == Url("https:", "fonts.gstatic.com", "/s/", "roboto", 0, ".woff2", "")
StyleUrl == Url("https:", "fonts.googleapis.com", "/", "css", 0, "", "?family=Roboto")
ScriptUrl == SiteUrl("/", "app", 0, ".js")
ExtensionUrl == Url("chrome-extension:", "abcdef", "/", "inject", 0, ".js", "")

\* PRECACHE_ASSETS of v2.0, resolved against the worker's origin.
PRECACHE_ASSETS ==
  <<SiteUrl("/", "", 0, ""), SiteUrl("/", "offline", 0, ".html"),
    SiteUrl("/", "manifest", 0, ".json"), SiteUrl("/p/", "pwa-main-js", 0, ".html")>>

OFFLINE_URL == Url("https:", "ksprovip7777.github.io", "/pwa-assets/", "offline", 0, ".html", "")

\* PRECACHE_URLS of v2.1.
PRECACHE_URLS == <<SiteUrl("/", "", 0, ""), OFFLINE_URL>>

Get(url) == [method |-> "GET", url |-> url]
Post(url) == [method |-> "POST", url |-> url]

\* A regular expression that names a literal matches an href one of whose
\* fragments is that literal.
Contains(url, literal) == literal \in {url.host, url.dir, url.name, url.ext, url.query}

\* /\.(?:a|b)$/ on the href: the href ends with its extension only when it
\* has no query string.
HrefEndsWith(url, exts) == url.query = "" /\ url.ext \in exts

\* url.protocol.startsWith('http') and request.url.startsWith('http')
IsHttp(url) == url.scheme \in {"http:", "https:"}

\* v2.0: API_PATTERNS, IMAGE_PATTERNS, FONT_PATTERNS, isStaticAsset.
isAPIRequest(url) == Contains(url, "script.google.com") \/ Contains(url, "/api/")

isImageRequest(url) ==
  \/ HrefEndsWith(url, {".png", ".jpg", ".jpeg", ".svg", ".gif", ".webp"})
  \/ Contains(url, "bp.blogspot.com")
  \/ Contains(url, "googleusercontent.com")

isFontRequest(url) ==
  \/ Contains(url, "fonts.googleapis.com")
  \/ Contains(url, "fonts.gstatic.com")
  \/ HrefEndsWith(url, {".woff", ".woff2", ".ttf", ".otf"})

\* Tested on url.pathname, which has no query string.
isStaticAsset(url) == url.ext \in {".css", ".js"}

NoRoute == [strategy |-> "none", cacheName |-> <<>>]
RouteTo(strategy, cacheName) == [strategy |-> strategy, cacheName |-> cacheName]

\* The v2.0 listener without its test of the request method.
Route20AnyMethod(req) ==
  IF ~IsHttp(req.url) THEN NoRoute
  ELSE IF isAPIRequest(req.url) THEN RouteTo("network-first", CACHES.DYNAMIC)
  ELSE IF isImageRequest(req.url) THEN RouteTo("cache-first", CACHES.IMAGES)
  ELSE IF isFontRequest(req.url) THEN RouteTo("cache-first", CACHES.FONTS)
  ELSE IF isStaticAsset(req.url) THEN RouteTo("stale-while-revalidate", CACHES.STATIC)
  ELSE RouteTo("network-first", CACHES.DYNAMIC)

\* The v2.0 listener with the image branch moved ahead of the API branch.
Route20ImageFirst(req) ==
  IF req.method # "GET" THEN NoRoute
  ELSE IF ~IsHttp(req.url) THEN NoRoute
  ELSE IF isImageRequest(req.url) THEN RouteTo("cache-first", CACHES.IMAGES)
  ELSE IF isAPIRequest(req.url) THEN RouteTo("network-first", CACHES.DYNAMIC)
  ELSE IF isFontRequest(req.url) THEN RouteTo("cache-first", CACHES.FONTS)
  ELSE IF isStaticAsset(req.url) THEN RouteTo("stale-while-revalidate", CACHES.STATIC)
  ELSE RouteTo("network-first", CACHES.DYNAMIC)

\* The 'fetch' listener of v2.0.
Route20(req) ==
  IF req.method # "GET" THEN NoRoute
  ELSE IF ~IsHttp(req.url) THEN NoRoute
  ELSE IF isAPIRequest(req.url) THEN RouteTo("network-first", CACHES.DYNAMIC)
  ELSE IF isImageRequest(req.url) THEN RouteTo("cache-first", CACHES.IMAGES)
  ELSE IF isFontRequest(req.url) THEN RouteTo("cache-first", CACHES.FONTS)
  ELSE IF isStaticAsset(req.url) THEN RouteTo("stale-while-revalidate", CACHES.STATIC)
  ELSE RouteTo("network-first", CACHES.DYNAMIC)

\* CACHE_PATTERNS.find of v2.1: the first pattern that matches. The URLs of
\* the model spell their extensions in lower case.
MatchedPattern(url) ==
  IF HrefEndsWith(url, {".png", ".jpg", ".jpeg", ".gif", ".svg", ".webp", ".ico"})
    THEN RouteTo("cache-first", PatternCache("-images"))
  ELSE IF HrefEndsWith(url, {".js", ".css"})
    THEN RouteTo("stale-while-revalidate", PatternCache("-assets"))
  ELSE IF url.scheme = "https:" /\ url.host = "fonts.googleapis.com"
    THEN RouteTo("stale-while-revalidate", PatternCache("-fonts"))
  ELSE IF url.scheme = "https:" /\ url.host = "fonts.gstatic.com"
    THEN RouteTo("cache-first", PatternCache("-font-files"))
  ELSE NoRoute

\* The 'fetch' listener of v2.1.
Route21(req) ==
  IF req.method # "GET" THEN NoRoute
  ELSE IF ~IsHttp(req.url) THEN NoRoute
  ELSE IF Contains(req.url, "script.google.com") THEN RouteTo("passthrough", <<>>)
  ELSE IF MatchedPattern(req.url) # NoRoute THEN MatchedPattern(req.url)
  ELSE RouteTo("network-first", CACHE_NAME)

Route(v, req) == IF v = "v20" THEN Route20(req) ELSE Route21(req)

\* The namespaces the v2.1 router stores into.
RouterCaches21 ==
  {CACHE_NAME, PatternCache("-images"), PatternCache("-assets"),
   PatternCache("-fonts"), PatternCache("-font-files")}

\* --- the Cache API ---------------------------------------------------------

\* What the network makes of a request: 0 when fetch() rejects, else the
\* status of the response.
Answers == {0, 200, 204, 404}

\* Storing whatever the network answered.
CacheableAnyResponse(v, answer) == answer # 0

\* response.ok in v2.0; networkResponse.status === 200 in v2.1.
Cacheable(v, answer) ==
  IF v = "v20" THEN answer \in 200..299 ELSE answer = 200

\* A cache entry: the request URL is its key; the stored response is not
\* looked into.
Entry(url) == [url |-> url]

\* cache.match(request): some entry is stored under the URL.
Match(entries, url) == \E i \in 1..Len(entries) : entries[i].url = url

\* cache.delete(request)
Remove(entries, url) == SelectSeq(entries, LAMBDA e : e.url # url)

\* cache.put(request, response): replaces the entry under the URL; the new
\* entry is the most recently inserted one.
Put(entries, e) == Append(Remove(entries, e.url), e)

\* cache.addAll(urls) when every fetch answered 200.
RECURSIVE AddAll(_, _)
AddAll(entries, urls) ==
  IF urls = <<>> THEN entries
  ELSE AddAll(Put(entries, Entry(Head(urls))), Tail(urls))

\* caches.open(name): creates the namespace when it does not exist.
CacheOpen(store, name) ==
  IF name \in DOMAIN store THEN store ELSE store @@ (name :> <<>>)

Entries(store, name) == IF name \in DOMAIN store THEN store[name] ELSE <<>>

\* limitCacheSize(cacheName, maxItems) on the entries cache.keys() returns:
\* the first keys.length - maxItems keys are deleted.
limitCacheSize(entries, maxItems) ==
  IF Len(entries) > maxItems
    THEN SubSeq(entries, Len(entries) - maxItems + 1, Len(entries))
    ELSE entries

\* --- install and activate --------------------------------------------------

PrecacheName(v) == IF v = "v20" THEN CACHES.STATIC ELSE CACHE_NAME
PrecacheList(v) == IF v = "v20" THEN PRECACHE_ASSETS ELSE PRECACHE_URLS
PrecacheSet(v) == {PrecacheList(v)[i] : i \in 1..Len(PrecacheList(v))}

\* CacheStorage after an install whose precache succeeded, starting from store.
Precached(store, v) ==
  [CacheOpen(store, PrecacheName(v)) EXCEPT
     ![PrecacheName(v)] = AddAll(@, PrecacheList(v))]

\* The promise the install listeners hand to event.waitUntil: v2.0 wraps the
\* precache in try/catch, v2.1 ends the chain with .catch; both only log.
InstallPromise(addAllOk) == IF addAllOk THEN "fulfilled" ELSE "fulfilled"

\* The host makes the worker installed when that promise fulfils and
\* redundant when it rejects.
AfterInstall(promise) == IF promise = "fulfilled" THEN "installed" ELSE "redundant"

\* The 'install' event: bad is the set of precache URLs whose fetch fails.
\* addAll stores nothing unless every fetch succeeds; skipWaiting() is
\* called only after addAll.
Install(bad) ==
  /\ swState = "parsed"
  /\ bad \subseteq PrecacheSet(variant)
  /\ caches' = IF bad = {} THEN Precached(caches, variant)
               ELSE CacheOpen(caches, PrecacheName(variant))
  /\ skipWaitingFlag' = (bad = {})
  /\ precacheFailed' = (bad # {})
  /\ swState' = AfterInstall(InstallPromise(bad = {}))
  /\ UNCHANGED <<now, variant, msgRun, navRun, dbVars, queueVars, serveVars, previous, control, deletedLog,
                 handlers, nPuts, nImages, nPages, orderly>>

\* The 'message' listener, type SKIP_WAITING, sent to the waiting worker.
SkipWaitingMessage ==
  /\ swState = "installed"
  /\ ~skipWaitingFlag
  /\ skipWaitingFlag' = TRUE
  /\ UNCHANGED <<now, variant, msgRun, navRun, dbVars, queueVars, serveVars, swState, precacheFailed, previous,
                 control, caches, deletedLog, handlers, nPuts, nImages,
                 nPages, orderly>>

\* Every page the previous worker controls is closed.
PreviousClientsClose ==
  /\ control = "previous"
  /\ control' = "none"
  /\ UNCHANGED <<now, variant, msgRun, navRun, dbVars, queueVars, serveVars, swState, skipWaitingFlag,
                 precacheFailed, previous, caches, deletedLog, handlers,
                 nPuts, nImages, nPages, orderly>>

\* Deleting every name that is not current, prefixed or not.
IsOldCacheAnyOther(v, name) ==
  IF v = "v20" THEN name \notin CachesValues ELSE name # CACHE_NAME

\* The filter of the 'activate' listeners.
IsOldCache(v, name) ==
  IF v = "v20"
    THEN StartsWith(name, CACHE_PREFIX) /\ name \notin CachesValues
    ELSE StartsWith(name, CACHE_PREFIX_21) /\ name # CACHE_NAME

\* cacheNames.filter(...) over caches.keys().
OldCaches(store, v) == {name \in DOMAIN store : IsOldCache(v, name)}

\* Promise.all of caches.delete(name) over the names.
DeleteAll(store, names) == [name \in DOMAIN store \ names |-> store[name]]

\* The 'activate' event: the host fires it on an installed worker once no
\* page is controlled by the previous one, or at once when skipWaiting() was
\* called. The listener deletes the old caches and claims the clients.
Activate ==
  /\ swState = "installed"
  /\ skipWaitingFlag \/ control # "previous"
  /\ deletedLog' = OldCaches(caches, variant)
  /\ caches' = DeleteAll(caches, OldCaches(caches, variant))
  /\ swState' = "activated"
  /\ control' = "this"
  /\ UNCHANGED <<now, variant, msgRun, navRun, dbVars, queueVars, serveVars, skipWaitingFlag, precacheFailed,
                 previous, handlers, nPuts, nImages, nPages, orderly>>

\* --- fetch handling ----------------------------------------------------------

\* The fetch events of the model are those of the pages this worker
\* controls.
Controlling == control = "this"

\* The requests the pages make: the next image or page not requested before,
\* the latest image again, and one request of every other kind. Distinct
\* images and pages are requested in the order of their numbers.
FetchRequests ==
  {Get(ImageUrl(nImages + 1)), Get(PageUrl(nPages + 1)), Get(ApiUrl),
   Get(FontUrl), Get(StyleUrl), Get(ScriptUrl), Post(ApiUrl), Get(ExtensionUrl)}
  \cup (IF nImages > 0 THEN {Get(ImageUrl(nImages))} ELSE {})

\* The cache-first strategies answer from the cache without fetching: v2.0
\* when its own namespace holds an entry younger than maxAge (fresh), v2.1
\* when caches.match finds the URL in any namespace.
ServedFromCache(v, store, route, url, fresh) ==
  /\ route.strategy = "cache-first"
  /\ IF v = "v20" THEN Match(Entries(store, route.cacheName), url) /\ fresh
     ELSE \E name \in DOMAIN store : Match(store[name], url)

\* The strategy issues cache.put for the network's answer.
Stores(v, store, route, url, fresh, answer) ==
  /\ route.strategy \in {"network-first", "cache-first", "stale-while-revalidate"}
  /\ ~ServedFromCache(v, store, route, url, fresh)
  /\ Cacheable(v, answer)

\* What a handler leaves outstanding after the network answered: the put it
\* does not await and, in cacheFirstStrategy of v2.0, the limitCacheSize call
\* that follows it.
NewHandler(v, route, url) ==
  [cacheName |-> route.cacheName, entry |-> Entry(url), put |-> TRUE,
   limit |-> (v = "v20" /\ route.strategy = "cache-first")]

\* A 'fetch' event, up to the network's answer. v2.0 opens its namespace
\* before anything else, v2.1 only when it is about to store.
FetchEvent(req, answer, fresh) ==
  /\ Controlling
  /\ nPuts < MaxPuts
  /\ Cardinality(handlers) < MaxInFlight
  /\ LET route == Route(variant, req)
         routed == route.strategy \notin {"none", "passthrough"}
         opened == IF variant = "v20" /\ routed
                     THEN CacheOpen(caches, route.cacheName) ELSE caches
         stores == Stores(variant, opened, route, req.url, fresh, answer)
     IN  /\ caches' = IF stores THEN CacheOpen(opened, route.cacheName) ELSE opened
         /\ handlers' = IF stores
                          THEN handlers \cup {NewHandler(variant, route, req.url)}
                          ELSE handlers
         /\ nPuts' = IF stores THEN nPuts + 1 ELSE nPuts
         /\ nImages' = IF stores /\ req.url = ImageUrl(nImages + 1)
                         THEN nImages + 1 ELSE nImages
         /\ nPages' = IF stores /\ req.url = PageUrl(nPages + 1)
                        THEN nPages + 1 ELSE nPages
         /\ orderly' = (orderly /\ (stores =>
                          /\ handlers = {}
                          /\ ~Match(Entries(opened, route.cacheName), req.url)))
  /\ UNCHANGED <<now, variant, msgRun, navRun, dbVars, queueVars, serveVars, swState, skipWaitingFlag,
                 precacheFailed, previous, control, deletedLog>>

\* The handlers after h has become h2.
Settle(hs, h, h2) ==
  (hs \ {h}) \cup (IF h2.put \/ h2.limit THEN {h2} ELSE {})

\* An outstanding cache.put completes. The Cache object of a namespace that
\* was deleted in the meantime is no longer part of CacheStorage.
PutCommits(h) ==
  /\ h.put
  /\ caches' = IF h.cacheName \in DOMAIN caches
                 THEN [caches EXCEPT ![h.cacheName] = Put(@, h.entry)]
                 ELSE caches
  /\ handlers' = Settle(handlers, h, [h EXCEPT !.put = FALSE])
  /\ UNCHANGED <<now, variant, msgRun, navRun, dbVars, queueVars, serveVars, swState, skipWaitingFlag,
                 precacheFailed, previous, control, deletedLog, nPuts,
                 nImages, nPages, orderly>>

\* The ceiling cacheFirstStrategy hands to limitCacheSize, whatever the
\* namespace.
CacheFirstLimit == CACHE_LIMITS.IMAGES

\* The limitCacheSize call of cacheFirstStrategy runs: open, keys(), deletes.
RunLimit(h) ==
  /\ h.limit
  /\ caches' = [CacheOpen(caches, h.cacheName) EXCEPT
                  ![h.cacheName] = limitCacheSize(@, CacheFirstLimit)]
  /\ handlers' = Settle(handlers, h, [h EXCEPT !.limit = FALSE])
  /\ UNCHANGED <<now, variant, msgRun, navRun, dbVars, queueVars, serveVars, swState, skipWaitingFlag,
                 precacheFailed, previous, control, deletedLog, nPuts,
                 nImages, nPages, orderly>>

\* No handler has cache work outstanding.
Quiescent == handlers = {}

WorkerNext ==
  \/ \E bad \in SUBSET PrecacheSet(variant) : Install(bad)
  \/ SkipWaitingMessage
  \/ PreviousClientsClose
  \/ Activate

FetchNext ==
  \/ \E req \in FetchRequests, answer \in Answers, fresh \in BOOLEAN :
       FetchEvent(req, answer, fresh)
  \/ \E h \in handlers : PutCommits(h)
  \/ \E h \in handlers : RunLimit(h)

(***************************************************************************)
(* Part III: the responses of the fetch handlers                           *)
(***************************************************************************)

\* --- classification of a request -----------------------------------------

\* The requests the 'fetch' listener is handed: every method, scheme, host,
\* directory, extension and query string the rules of either worker tell
\* apart, in every combination.
RouteUrls ==
  {Url(s, h, d, "file", 0, e, q) :
     s \in {"https:", "http:", "chrome-extension:"},
     h \in {SITE, "script.google.com", "fonts.googleapis.com",
            "fonts.gstatic.com", "bp.blogspot.com"},
     d \in {"/", "/api/"},
     e \in {"", ".html", ".png", ".ico", ".js", ".css", ".woff2"},
     q \in {"", "?v=1"}}

RouteRequests == {Get(u) : u \in RouteUrls} \cup {Post(u) : u \in RouteUrls}

\* No 'fetch' event has been dispatched yet.
NoRequest == [method |-> "", url |-> Url("", "", "", "", 0, "", "")]

\* The listener runs to its end synchronously: it either returns without
\* calling event.respondWith (NoRoute) or calls it with one strategy.
Classify(req) ==
  /\ routeReq' = req
  /\ routeOf' = Route(variant, req)
  /\ UNCHANGED <<now, variant, msgRun, navRun, dbVars, queueVars, swVars, handlings, swClock>>

RouteNext == \E req \in RouteRequests : Classify(req)

\* The if / else-if chain of the v2.0 listener, one rule per branch, and
\* the strategy call each branch makes.
Rule20Matches(i, url) ==
  CASE i = 1 -> isAPIRequest(url)
    [] i = 2 -> isImageRequest(url)
    [] i = 3 -> isFontRequest(url)
    [] i = 4 -> isStaticAsset(url)

Rule20Route(i) ==
  CASE i = 1 -> RouteTo("network-first", CACHES.DYNAMIC)
    [] i = 2 -> RouteTo("cache-first", CACHES.IMAGES)
    [] i = 3 -> RouteTo("cache-first", CACHES.FONTS)
    [] i = 4 -> RouteTo("stale-while-revalidate", CACHES.STATIC)

\* The entries of CACHE_PATTERNS of v2.1, in the order of the array.
Pattern21Matches(i, url) ==
  CASE i = 1 -> HrefEndsWith(url, {".png", ".jpg", ".jpeg", ".gif", ".svg", ".webp", ".ico"})
    [] i = 2 -> HrefEndsWith(url, {".js", ".css"})
    [] i = 3 -> url.scheme = "https:" /\ url.host = "fonts.googleapis.com"
    [] i = 4 -> url.scheme = "https:" /\ url.host = "fonts.gstatic.com"

Pattern21Route(i) ==
  CASE i = 1 -> RouteTo("cache-first", PatternCache("-images"))
    [] i = 2 -> RouteTo("stale-while-revalidate", PatternCache("-assets"))
    [] i = 3 -> RouteTo("stale-while-revalidate", PatternCache("-fonts"))
    [] i = 4 -> RouteTo("cache-first", PatternCache("-font-files"))

RuleCount == 4

RuleMatches(v, i, url) ==
  IF v = "v20" THEN Rule20Matches(i, url) ELSE Pattern21Matches(i, url)

RuleRoute(v, i) == IF v = "v20" THEN Rule20Route(i) ELSE Pattern21Route(i)

\* The rules of worker v that match the URL, and the earliest of them
\* (0 when none matches).
MatchingRules(v, url) == {i \in 1..RuleCount : RuleMatches(v, i, url)}

FirstMatch(v, url) ==
  IF MatchingRules(v, url) = {} THEN 0
  ELSE CHOOSE i \in MatchingRules(v, url) : \A j \in MatchingRules(v, url) : i <= j

\* The final else branch of either listener.
DefaultRoute(v) ==
  RouteTo("network-first", IF v = "v20" THEN CACHES.DYNAMIC ELSE CACHE_NAME)

\* --- responses -------------------------------------------------------------

\* CACHE_DURATIONS, in minutes.
CACHE_DURATIONS == [API |-> 5, IMAGES |-> 7 * 24 * 60, STATIC |-> 30 * 24 * 60]

\* The worker's clock counts minutes since the epoch. The worker went into
\* service long after the epoch; the clock is read then and when the shorter
\* of the maxAges of cacheFirstStrategy has passed.
InstallTime == 2 * CACHE_DURATIONS.STATIC
ClockInstants == {InstallTime, InstallTime + CACHE_DURATIONS.IMAGES}

\* A response: the URL it answers, its status, its Date header (<<>> when
\* the header is absent or not exposed to scripts, <<t>> otherwise) and,
\* once it is a cache entry, the moment cache.put stored it.
Response(url, status, date, storedAt) ==
  [url |-> url, status |-> status, date |-> date, storedAt |-> storedAt]

NoResponse == Response(NoRequest.url, 0, <<>>, 0)

\* new Date(response.headers.get('date')): headers.get returns null for a
\* header that is absent, and new Date(null) is the epoch.
CachedDate(resp) == IF resp.date = <<>> THEN 0 ELSE resp.date[1]

\* new Response(body, {status: ...})
Synthetic(url, status) == Response(url, status, <<>>, 0)

\* cache.match(request) as a value: the entry stored under the URL, or
\* undefined.
MatchResponse(entries, url) ==
  IF Match(entries, url)
    THEN entries[CHOOSE i \in 1..Len(entries) : entries[i].url = url]
    ELSE NoResponse

\* caches.match(request): the match of the first namespace that has one. No
\* URL of the model is stored in more than one namespace of v2.1.
GlobalMatch(store, url) ==
  IF \E name \in DOMAIN store : Match(store[name], url)
    THEN MatchResponse(store[CHOOSE name \in DOMAIN store : Match(store[name], url)], url)
    ELSE NoResponse

\* What event.respondWith was handed, once settled: a response and where it
\* came from, a rejection, or the value undefined. kind is "none" when the
\* listener returned without calling respondWith and "pending" while the
\* promise is unsettled.
Result(kind, source, resp) == [kind |-> kind, source |-> source, resp |-> resp]

PendingResult == Result("pending", "", NoResponse)
NotAnswered == Result("none", "", NoResponse)
Rejected == Result("rejected", "", NoResponse)
Undefined == Result("undefined", "", NoResponse)
Responded(source, resp) == Result("response", source, resp)

\* The page of the site that is neither precached nor an asset, and a data
\* file of the site.
DataUrl == SiteUrl("/feeds/", "posts", 0, ".json")

\* '/offline.html' resolved against the worker's origin (v2.0), OFFLINE_URL
\* (v2.1).
OfflinePage(v) == IF v = "v20" THEN SiteUrl("/", "offline", 0, ".html") ELSE OFFLINE_URL

\* The fetch events followed: a page navigation (request.mode 'navigate',
\* Accept: text/html), and subresource requests for a data file, an image
\* and a script; a POST and a request of a browser extension.
ServeRequests ==
  {[req |-> Get(PageUrl(1)), navigate |-> TRUE],
   [req |-> Get(DataUrl), navigate |-> FALSE],
   [req |-> Get(ImageUrl(1)), navigate |-> FALSE],
   [req |-> Get(ScriptUrl), navigate |-> FALSE],
   [req |-> Post(ApiUrl), navigate |-> FALSE],
   [req |-> Get(ExtensionUrl), navigate |-> FALSE]}

\* maxAge of cacheFirstStrategy.
MaxAge(cacheName) ==
  IF cacheName = CACHES.IMAGES THEN CACHE_DURATIONS.IMAGES ELSE CACHE_DURATIONS.STATIC

\* The first lookup of a strategy: cache-first and stale-while-revalidate
\* look before they fetch, in their own namespace (v2.0) or in all of them
\* (v2.1); network-first does not look.
FirstLookup(v, store, route, url) ==
  IF route.strategy \notin {"cache-first", "stale-while-revalidate"} THEN NoResponse
  ELSE IF v = "v20" THEN MatchResponse(Entries(store, route.cacheName), url)
  ELSE GlobalMatch(store, url)

\* cache-first returns the entry found without fetching: v2.0 when the age
\* computed from its Date header is below maxAge, v2.1 always.
ReturnsCached(v, route, hit, clock) ==
  /\ route.strategy = "cache-first"
  /\ hit # NoResponse
  /\ v = "v20" => clock - CachedDate(hit) < MaxAge(route.cacheName)

\* Stale-while-revalidate made to wait for the network every time.
ReturnFetchPromise(hit) == PendingResult

\* return cachedResponse || fetchPromise
StaleWhileRevalidateReturn(hit) ==
  IF hit # NoResponse THEN Responded("cache", hit) ELSE PendingResult

\* The handling of one 'fetch' event: the request, its route, whether
\* fetch() was called and what it answered (0: it rejected, or has not
\* answered yet), the entry the first lookup found, the response on its way
\* into the cache, and what respondWith was handed. revisit is history: the
\* event was dispatched after a network-first handling of the same request
\* had returned a 2xx response of the network.
Handling(r, route, pc, fetched, hit, result) ==
  [req |-> r.req, navigate |-> r.navigate, route |-> route, pc |-> pc,
   fetched |-> fetched, answer |-> 0, hit |-> hit, put |-> NoResponse,
   result |-> result, revisit |-> FALSE]

\* Some network-first handling of the request has returned a 2xx response
\* of the network.
ReturnedFromNetwork(req) ==
  \E i \in 1..Len(handlings) :
     /\ handlings[i].req = req
     /\ handlings[i].route.strategy = "network-first"
     /\ handlings[i].result.kind = "response"
     /\ handlings[i].result.source = "network"
     /\ handlings[i].result.resp.status \in 200..299

\* The 'fetch' listener and the strategy it calls, up to the call of
\* fetch(): v2.0 opens its namespace first; cache-first and
\* stale-while-revalidate look the request up.
Dispatch(r) ==
  /\ Controlling
  /\ Len(handlings) < MaxRuns
  /\ LET route == Route(variant, r.req)
         answered == route.strategy # "none"
         opened == IF variant = "v20" /\ answered /\ route.strategy # "passthrough"
                     THEN CacheOpen(caches, route.cacheName) ELSE caches
         hit == FirstLookup(variant, opened, route, r.req.url)
     IN  /\ caches' = opened
         /\ handlings' = Append(handlings,
              IF ~answered
                THEN Handling(r, route, "done", FALSE, NoResponse, NotAnswered)
              ELSE IF ReturnsCached(variant, route, hit, swClock)
                THEN Handling(r, route, "done", FALSE, hit, Responded("cache", hit))
              ELSE IF route.strategy = "stale-while-revalidate"
                THEN Handling(r, route, "fetching", TRUE, hit, StaleWhileRevalidateReturn(hit))
              ELSE [Handling(r, route, "fetching", TRUE, hit, PendingResult)
                      EXCEPT !.revisit = ReturnedFromNetwork(r.req)])
  /\ UNCHANGED <<now, variant, msgRun, navRun, dbVars, queueVars, swState, skipWaitingFlag,
                 precacheFailed, previous, control, deletedLog, handlers,
                 nPuts, nImages, nPages, orderly, swClock, routeReq, routeOf>>

\* The Date header of the answer will be read: the answer is stored by
\* cacheFirstStrategy of v2.0.
ReadsDate(v, route, answer) ==
  v = "v20" /\ route.strategy = "cache-first" /\ Cacheable(v, answer)

\* networkFirstStrategy / networkFirst when fetch() rejects: the entry of
\* the request, else for a navigation the offline page, else a synthetic
\* 503. v2.0 looks in the namespace it opened, v2.1 in all of them.
NetworkFirstFailure(v, store, h) ==
  LET Look(url) == IF v = "v20"
                     THEN MatchResponse(Entries(store, h.route.cacheName), url)
                     ELSE GlobalMatch(store, url)
  IN  IF Look(h.req.url) # NoResponse THEN Responded("cache", Look(h.req.url))
      ELSE IF h.navigate /\ Look(OfflinePage(v)) # NoResponse
        THEN Responded("offline", Look(OfflinePage(v)))
      ELSE Responded("synthetic", Synthetic(h.req.url, 503))

\* cacheFirstStrategy / cacheFirst when fetch() rejects: v2.0 returns the
\* entry it found expired, or rethrows; v2.1 returns a synthetic 404.
CacheFirstFailure(v, h) ==
  IF v = "v20"
    THEN IF h.hit # NoResponse THEN Responded("cache", h.hit) ELSE Rejected
    ELSE Responded("synthetic", Synthetic(h.req.url, 404))

\* The stale-while-revalidate strategies when fetch() rejects and nothing
\* was cached: the catch handler of v2.0 returns cachedResponse, that of
\* v2.1 returns nothing; fetchPromise fulfils with undefined.
StaleWhileRevalidateFailure(v, h) == Undefined

\* What respondWith is handed once fetch() has answered.
Settled(v, store, h, answer, resp) ==
  IF h.result.kind # "pending" THEN h.result
  ELSE IF answer # 0 THEN Responded("network", resp)
  ELSE IF h.route.strategy = "network-first" THEN NetworkFirstFailure(v, store, h)
  ELSE IF h.route.strategy = "cache-first" THEN CacheFirstFailure(v, h)
  ELSE IF h.route.strategy = "stale-while-revalidate"
    THEN StaleWhileRevalidateFailure(v, h)
  ELSE Rejected

\* fetch() settles for handling i: answer is 0 when it rejects, else the
\* status; dated tells whether the response shows a Date header (told apart
\* only for the responses cacheFirstStrategy of v2.0 stores: nothing reads
\* the header of the others). A response the strategy finds cacheable goes
\* on its way into the cache, with a cache.put nobody awaits.
NetworkAnswers(i, answer, dated) ==
  /\ i \in 1..Len(handlings)
  /\ handlings[i].pc = "fetching"
  /\ ~ReadsDate(variant, handlings[i].route, answer) => dated
  /\ LET h == handlings[i]
         resp == Response(h.req.url, answer,
                          IF dated /\ answer # 0 THEN <<swClock>> ELSE <<>>, swClock)
         stores == /\ answer # 0
                   /\ h.route.strategy # "passthrough"
                   /\ Cacheable(variant, answer)
     IN  /\ caches' = IF stores THEN CacheOpen(caches, h.route.cacheName) ELSE caches
         /\ handlings' = [handlings EXCEPT ![i] =
              [h EXCEPT !.pc = IF stores THEN "putting" ELSE "done",
                        !.answer = answer,
                        !.put = IF stores THEN resp ELSE NoResponse,
                        !.result = Settled(variant, caches, h, answer, resp)]]
  /\ UNCHANGED <<now, variant, msgRun, navRun, dbVars, queueVars, swState, skipWaitingFlag,
                 precacheFailed, previous, control, deletedLog, handlers,
                 nPuts, nImages, nPages, orderly, swClock, routeReq, routeOf>>

\* The cache.put of handling i completes; cacheFirstStrategy of v2.0 then
\* has its limitCacheSize call.
PutDone(i) ==
  /\ i \in 1..Len(handlings)
  /\ handlings[i].pc = "putting"
  /\ LET h == handlings[i]
         name == h.route.cacheName
         stored == Put(Entries(caches, name), [h.put EXCEPT !.storedAt = swClock])
     IN  caches' = [CacheOpen(caches, name) EXCEPT ![name] =
                      IF variant = "v20" /\ h.route.strategy = "cache-first"
                        THEN limitCacheSize(stored, CacheFirstLimit) ELSE stored]
  /\ handlings' = [handlings EXCEPT ![i].pc = "done"]
  /\ UNCHANGED <<now, variant, msgRun, navRun, dbVars, queueVars, swState, skipWaitingFlag,
                 precacheFailed, previous, control, deletedLog, handlers,
                 nPuts, nImages, nPages, orderly, swClock, routeReq, routeOf>>

\* response.ok, the condition under which cache.addAll stores.
AddAllStores(answer) == answer \in 200..299

\* The 'message' listener of v2.0, type CACHE_URLS with one URL: cacheUrls
\* opens the dynamic namespace and calls addAll. The pages send the message
\* for a URL the namespace does not hold.
CacheUrlsMessage(url, answer) ==
  /\ variant = "v20"
  /\ Controlling
  /\ ~Match(Entries(caches, CACHES.DYNAMIC), url)
  /\ caches' = [CacheOpen(caches, CACHES.DYNAMIC) EXCEPT ![CACHES.DYNAMIC] =
                  IF AddAllStores(answer)
                    THEN Put(@, Response(url, answer, <<swClock>>, swClock))
                    ELSE @]
  /\ UNCHANGED <<now, variant, msgRun, navRun, dbVars, queueVars, swState, skipWaitingFlag,
                 precacheFailed, previous, control, deletedLog, handlers,
                 nPuts, nImages, nPages, orderly, serveVars>>

\* The URL the pages ask the worker to cache.
CacheUrlsPayloads == {OfflinePage("v20")}

\* cleanExpiredCache(cacheName, maxAge) at time t: of the entries that
\* cache.keys() lists, those whose Date header lies more than maxAge
\* before t are deleted; the others keep their order.
cleanExpiredCache(entries, maxAge, t) ==
  SelectSeq(entries, LAMBDA e : ~(t - CachedDate(e) > maxAge))

\* The namespaces periodicCacheCleanup sweeps, each with its maxAge.
SweptNamespaces == CACHES.API :> CACHE_DURATIONS.API @@ CACHES.IMAGES :> CACHE_DURATIONS.IMAGES

\* The 'periodicsync' listener of v2.0, tag 'clean-cache':
\* periodicCacheCleanup sweeps the API namespace, then the image namespace;
\* caches.open creates a namespace that is missing.
PeriodicCacheCleanup ==
  /\ variant = "v20"
  /\ Controlling
  /\ caches' = [name \in DOMAIN caches \cup DOMAIN SweptNamespaces |->
                  IF name \in DOMAIN SweptNamespaces
                    THEN cleanExpiredCache(Entries(caches, name), SweptNamespaces[name], swClock)
                    ELSE caches[name]]
  /\ UNCHANGED <<now, variant, msgRun, navRun, dbVars, queueVars, swState, skipWaitingFlag,
                 precacheFailed, previous, control, deletedLog, handlers,
                 nPuts, nImages, nPages, orderly, serveVars>>

\* Time passes. A handling lasts seconds and the clock of the model
\* counts in days: it moves between handlings.
Tick(t) ==
  /\ t \in ClockInstants
  /\ t > swClock
  /\ \A i \in 1..Len(handlings) : handlings[i].pc = "done"
  /\ swClock' = t
  /\ UNCHANGED <<now, variant, msgRun, navRun, dbVars, queueVars, swVars, handlings, routeReq, routeOf>>

ServeNext ==
  \/ \E r \in ServeRequests : Dispatch(r)
  \/ \E i \in 1..MaxRuns, answer \in Answers, dated \in BOOLEAN :
       NetworkAnswers(i, answer, dated)
  \/ \E i \in 1..MaxRuns : PutDone(i)
  \/ \E url \in CacheUrlsPayloads, answer \in Answers : CacheUrlsMessage(url, answer)
  \/ \E t \in ClockInstants : Tick(t)

\* The precache list as addAll stores it at time t when every fetch
\* answered with the status.
PrecachedAt(v, status, t) ==
  [i \in 1..Len(PrecacheList(v)) |-> Response(PrecacheList(v)[i], status, <<t>>, t)]

\* No 'fetch' event is being followed.
ServeQuiet ==
  /\ handlings = <<>>
  /\ swClock = 0
  /\ routeReq = NoRequest
  /\ routeOf = NoRoute

(***************************************************************************)
(* Part IV: LotusDB                                                        *)
(***************************************************************************)

\* --- configuration ---------------------------------------------------------

STORES ==
  [PRODUCTS |-> "products", CATEGORIES |-> "categories", CART |-> "cart",
   ORDERS |-> "orders", OFFLINE_ORDERS |-> "offlineOrders",
   SETTINGS |-> "settings", SYNC_META |-> "syncMeta"]

\* TTL, in milliseconds.
TTL ==
  [PRODUCTS |-> 24 * 60 * 60 * 1000,
   CATEGORIES |-> 7 * 24 * 60 * 60 * 1000,
   SETTINGS |-> 60 * 60 * 1000]

\* The object stores _createStores gives an index named 'timestamp'.
HasTimestampIndex(name) ==
  name \in {STORES.PRODUCTS, STORES.CATEGORIES, STORES.CART, STORES.ORDERS,
            STORES.OFFLINE_ORDERS}

\* --- the Store wrapper -------------------------------------------------------

\* The keys and the field contents the callers use. A record is the content
\* of its fields other than the key and the timestamp, and its timestamp.
Keys == {1, 2}
Datas == {"a", "b"}

Record(data, t) == [data |-> data, timestamp |-> t]

\* undefined, as IDBObjectStore.get and Map.get return it for a missing key.
NoRecord == Record("", 0)

\* A put that leaves the store with the one record it writes.
ObjectStorePutAlone(records, key, record) == (key :> record)

\* IDBObjectStore.put(item), Map.set(key, item): writes under the key,
\* whether or not it is taken.
ObjectStorePut(records, key, record) ==
  [k \in DOMAIN records \cup {key} |-> IF k = key THEN record ELSE records[k]]

\* An add that writes over the record under a key that is taken.
ObjectStoreAddOverwriting(records, key, record) ==
  ObjectStorePut(records, key, record)

\* IDBObjectStore.add(item): writes under a free key only; the request fails
\* with ConstraintError when the key is taken.
ObjectStoreAdd(records, key, record) ==
  IF key \in DOMAIN records THEN records ELSE ObjectStorePut(records, key, record)

\* IDBObjectStore.delete(key), Map.delete(key)
ObjectStoreDelete(records, key) == [k \in DOMAIN records \ {key} |-> records[k]]

\* IDBObjectStore.get(key), Map.get(key)
ObjectStoreGet(records, key) ==
  IF key \in DOMAIN records THEN records[key] ELSE NoRecord

\* How a call settled: the method, its key, the name of the error it rejected
\* with ("" when it fulfilled) and the record it fulfilled with.
CallResult(op, key, error, value) ==
  [op |-> op, key |-> key, error |-> error, value |-> value]

NoCallYet == CallResult("", 0, "", NoRecord)

\* What Store.get(key) fulfils with: the entry of the memory cache when
\* there is one, else what the object store holds.
StoreGet(cache, records, key) ==
  IF key \in DOMAIN cache THEN cache[key] ELSE ObjectStoreGet(records, key)

\* The memory cache after Store.get(key): a record read from the object
\* store is remembered.
CacheAfterGet(cache, records, key) ==
  IF key \notin DOMAIN cache /\ key \in DOMAIN records
    THEN ObjectStorePut(cache, key, records[key]) ELSE cache

\* {...item, ...updates}: updates is <<>> when it names no field and
\* <<data>> when it gives the fields new contents.
Merge(data, updates) == IF updates = <<>> THEN data ELSE updates[1]

Updates == {<<>>} \cup {<<d>> : d \in Datas}

\* Store.add(data)
StoreAdd(key, data) ==
  /\ idb' = ObjectStoreAdd(idb, key, Record(data, dbClock))
  /\ callResult' = CallResult("add", key,
                     IF key \in DOMAIN idb THEN "ConstraintError" ELSE "", NoRecord)
  /\ UNCHANGED <<storeName, updating, memoryCache, dbClock, syncMeta, syncRun, searchRun>>
  /\ UNCHANGED <<now, variant, msgRun, navRun, queueVars, swVars, serveVars>>

\* Store.get(key)
StoreGetCall(key) ==
  /\ callResult' = CallResult("get", key, "", StoreGet(memoryCache, idb, key))
  /\ memoryCache' = CacheAfterGet(memoryCache, idb, key)
  /\ UNCHANGED <<storeName, updating, idb, dbClock, syncMeta, syncRun, searchRun>>
  /\ UNCHANGED <<now, variant, msgRun, navRun, queueVars, swVars, serveVars>>

\* Store.update(key, updates): reads through Store.get, then puts the merged
\* item and sets it in the memory cache.
StoreUpdate(key, updates) ==
  /\ LET item == StoreGet(memoryCache, idb, key)
         updatedItem == Record(Merge(item.data, updates), dbClock)
     IN  IF item = NoRecord
           THEN /\ callResult' = CallResult("update", key, "Item not found", NoRecord)
                /\ UNCHANGED <<idb, memoryCache>>
           ELSE /\ idb' = ObjectStorePut(idb, key, updatedItem)
                /\ memoryCache' = ObjectStorePut(memoryCache, key, updatedItem)
                /\ callResult' = CallResult("update", key, "", NoRecord)
  /\ UNCHANGED <<storeName, updating, dbClock, syncMeta, syncRun, searchRun>>
  /\ UNCHANGED <<now, variant, msgRun, navRun, queueVars, swVars, serveVars>>

\* Store.delete(key)
StoreDeleteCall(key) ==
  /\ idb' = ObjectStoreDelete(idb, key)
  /\ memoryCache' = ObjectStoreDelete(memoryCache, key)
  /\ callResult' = CallResult("delete", key, "", NoRecord)
  /\ UNCHANGED <<storeName, updating, dbClock, syncMeta, syncRun, searchRun>>
  /\ UNCHANGED <<now, variant, msgRun, navRun, queueVars, swVars, serveVars>>

\* --- the TTL sweep -----------------------------------------------------------

\* The test of the cursor loop of _cleanupStore.
Expired(record, t, ttl) == record.timestamp # 0 /\ t - record.timestamp > ttl

\* A sweep that also deletes the record whose age equals the time-to-live.
CleanupFromTTL(records, t, ttl) ==
  [k \in {j \in DOMAIN records : t - records[j].timestamp < ttl} |-> records[k]]

\* _cleanupStore(storeName, now, ttl) on the records of a store that has the
\* 'timestamp' index: cursor.delete() on every record the test selects.
CleanupStore(records, t, ttl) ==
  [k \in {j \in DOMAIN records : ~Expired(records[j], t, ttl)} |-> records[k]]

\* The time-to-live a caller of _cleanupStore passes.
CallerTTLs == {800, 1000}

\* _cleanupStore called on the observed store with the clock's time; on a
\* store without the index, store.index('timestamp') throws.
CleanupStoreCall(ttl) ==
  /\ idb' = IF HasTimestampIndex(storeName)
              THEN CleanupStore(idb, dbClock, ttl) ELSE idb
  /\ callResult' = CallResult("_cleanupStore", 0,
                     IF HasTimestampIndex(storeName) THEN "" ELSE "NotFoundError",
                     NoRecord)
  /\ UNCHANGED <<storeName, updating, memoryCache, dbClock, syncMeta, syncRun, searchRun>>
  /\ UNCHANGED <<now, variant, msgRun, navRun, queueVars, swVars, serveVars>>

\* The stores _cleanupExpiredData sweeps, each with its TTL.
SweptTTL(name) ==
  IF name = STORES.PRODUCTS THEN <<TTL.PRODUCTS>>
  ELSE IF name = STORES.CATEGORIES THEN <<TTL.CATEGORIES>>
  ELSE <<>>

\* _cleanupExpiredData(), the hourly callback, as far as the observed store
\* is concerned.
CleanupExpiredData ==
  /\ idb' = IF SweptTTL(storeName) # <<>>
              THEN CleanupStore(idb, dbClock, SweptTTL(storeName)[1]) ELSE idb
  /\ callResult' = CallResult("_cleanupExpiredData", 0, "", NoRecord)
  /\ UNCHANGED <<storeName, updating, memoryCache, dbClock, syncMeta, syncRun, searchRun>>
  /\ UNCHANGED <<now, variant, msgRun, navRun, queueVars, swVars, serveVars>>

\* The instants at which the page reads Date.now(): three early ones and one
\* after every TTL has run out for what was stored then.
DbInstants == {500, 1200, 2000, 500 + TTL.CATEGORIES + 1}

\* Time passes in the page.
DbTick(t) ==
  /\ t \in DbInstants
  /\ t > dbClock
  /\ dbClock' = t
  /\ UNCHANGED <<storeName, updating, idb, memoryCache, callResult, syncMeta, syncRun, searchRun>>
  /\ UNCHANGED <<now, variant, msgRun, navRun, queueVars, swVars, serveVars>>

StoreNext ==
  \/ \E key \in Keys, data \in Datas : StoreAdd(key, data)
  \/ \E key \in Keys : StoreGetCall(key)
  \/ \E key \in Keys, updates \in Updates : StoreUpdate(key, updates)
  \/ \E key \in Keys : StoreDeleteCall(key)
  \/ \E ttl \in CallerTTLs : CleanupStoreCall(ttl)
  \/ CleanupExpiredData
  \/ \E t \in DbInstants : DbTick(t)

\* --- SyncEngine --------------------------------------------------------------

\* An item of a remote snapshot, and a row of a store as getAll reads it:
\* the value of the store's key path and the content of the other fields.
Item(key, data) == [key |-> key, data |-> data]

\* result.data of the API: an array of items or a single object.
Snapshot(array, items) == [array |-> array, items |-> items]

NoSnapshot == Snapshot(TRUE, <<>>)

\* The snapshots the API serves: arrays of up to two items, no two of them
\* under one key, and single objects.
Snapshots ==
  {Snapshot(TRUE, <<>>)}
    \cup {Snapshot(array, <<Item(k, d)>>) :
            array \in BOOLEAN, k \in Keys, d \in Datas}
    \cup {Snapshot(TRUE, <<Item(p[1], d), Item(p[2], e)>>) :
            p \in {q \in Keys \X Keys : q[1] # q[2]}, d \in Datas, e \in Datas}

\* Store.getAll(): every row of the object store, in ascending key order.
RECURSIVE StoreGetAll(_)
StoreGetAll(records) ==
  IF DOMAIN records = {} THEN <<>>
  ELSE LET first == CHOOSE k \in DOMAIN records : \A j \in DOMAIN records : k <= j
       IN  <<Item(first, records[first].data)>>
             \o StoreGetAll(ObjectStoreDelete(records, first))

\* _getKey(storeName, item): item[keys[storeName]], a one-element tuple
\* holding the key, or <<>> for undefined when the store has no entry in keys.
GetKey(name, item) ==
  IF name \in {STORES.PRODUCTS, STORES.CATEGORIES, STORES.ORDERS}
    THEN <<item.key>> ELSE <<>>

\* A call of pull or push: its method and position, the snapshot a pull
\* fetched and the rows a push read, the index of the item in hand, the rows
\* sent so far and the number of sends not yet answered, the index of the
\* first rejected row (0 when none), the error the call rejected with, the
\* object store as the call found it, and whether the call is a pull that
\* follows a fulfilled pull of the same snapshot.
SyncRun(op, pc, snapshot, rows, next, sent, inFlight, rejected, error, before, repeat) ==
  [op |-> op, pc |-> pc, snapshot |-> snapshot, rows |-> rows, next |-> next,
   sent |-> sent, inFlight |-> inFlight, rejected |-> rejected, error |-> error,
   before |-> before, repeat |-> repeat]

NoSync == SyncRun("", "idle", NoSnapshot, <<>>, 0, <<>>, 0, 0, "", <<>>, FALSE)

SyncIdle == syncRun.pc \in {"idle", "done", "failed"}

\* How the API answers a request.
ApiOutcomes == {"ok", "network error", "HTTP 500", "success false"}

\* The error pull and push throw for an answer ("" for none).
ApiError(outcome) ==
  IF outcome = "ok" THEN ""
  ELSE IF outcome = "network error" THEN "TypeError"
  ELSE IF outcome = "HTTP 500" THEN "HTTP 500"
  ELSE "API error"

\* pull(storeName) up to its fetch; the API will answer with the snapshot.
PullStart(snapshot) ==
  /\ SyncIdle
  /\ syncRun' = SyncRun("pull", "fetching", snapshot, <<>>, 1, <<>>, 0, 0, "", idb,
                        /\ syncRun.op = "pull"
                        /\ syncRun.pc = "done"
                        /\ syncRun.snapshot = snapshot)
  /\ UNCHANGED <<storeName, updating, idb, memoryCache, dbClock, callResult, syncMeta, searchRun>>
  /\ UNCHANGED <<now, variant, msgRun, navRun, queueVars, swVars, serveVars>>

\* The fetch of pull settles and the response is checked.
PullResponse(outcome) ==
  /\ syncRun.op = "pull"
  /\ syncRun.pc = "fetching"
  /\ syncRun' = IF outcome = "ok"
                  THEN [syncRun EXCEPT !.pc = "items"]
                  ELSE [syncRun EXCEPT !.pc = "failed", !.error = ApiError(outcome)]
  /\ UNCHANGED <<storeName, updating, idb, memoryCache, dbClock, callResult, syncMeta, searchRun>>
  /\ UNCHANGED <<now, variant, msgRun, navRun, queueVars, swVars, serveVars>>

\* A pull that writes the watermark while items are still to be stored.
WatermarkAtOnce(run) == run.op = "pull" /\ run.pc = "items"

\* pull has left the item loop: every item of the snapshot was stored.
WatermarkDue(run) ==
  /\ run.op = "pull"
  /\ run.pc = "items"
  /\ run.next > Len(run.snapshot.items)

\* The errors other than ConstraintError a request on the object store can
\* fail with ("" for none).
StoreErrors == {"", "QuotaExceededError"}

\* One turn of the item loop of pull (or the single add of an object):
\* store.add(item) and, in the loop, store.update(_getKey(storeName, item),
\* item) when the add failed with ConstraintError.
PullItem(storeError) ==
  /\ syncRun.op = "pull"
  /\ syncRun.pc = "items"
  /\ syncRun.next <= Len(syncRun.snapshot.items)
  /\ LET item == syncRun.snapshot.items[syncRun.next]
         key == GetKey(storeName, item)
         stored == StoreGet(memoryCache, idb, key[1])
         updatedItem == Record(Merge(stored.data, <<item.data>>), dbClock)
         fail(error) ==
           /\ syncRun' = [syncRun EXCEPT !.pc = "failed", !.error = error]
           /\ UNCHANGED <<idb, memoryCache>>
     IN  IF storeError # "" THEN fail(storeError)
         ELSE IF item.key \notin DOMAIN idb
           THEN /\ idb' = ObjectStoreAdd(idb, item.key, Record(item.data, dbClock))
                /\ syncRun' = [syncRun EXCEPT !.next = @ + 1]
                /\ UNCHANGED memoryCache
         ELSE IF ~syncRun.snapshot.array THEN fail("ConstraintError")
         ELSE IF key = <<>> THEN fail("DataError")
         ELSE /\ idb' = ObjectStorePut(idb, key[1], updatedItem)
              /\ memoryCache' = ObjectStorePut(memoryCache, key[1], updatedItem)
              /\ syncRun' = [syncRun EXCEPT !.next = @ + 1]
  /\ UNCHANGED <<storeName, updating, dbClock, callResult, syncMeta, searchRun>>
  /\ UNCHANGED <<now, variant, msgRun, navRun, queueVars, swVars, serveVars>>

\* _updateSyncMeta(storeName) and the return of pull.
PullFinish ==
  /\ WatermarkDue(syncRun)
  /\ syncMeta' = ObjectStorePut(syncMeta, storeName, dbClock)
  /\ syncRun' = [syncRun EXCEPT !.pc = "done"]
  /\ UNCHANGED <<storeName, updating, idb, memoryCache, dbClock, callResult, searchRun>>
  /\ UNCHANGED <<now, variant, msgRun, navRun, queueVars, swVars, serveVars>>

\* push(storeName) up to its loop: getAll, and the return when there is
\* nothing to push.
PushStart ==
  /\ SyncIdle
  /\ LET rows == StoreGetAll(idb)
     IN  syncRun' = SyncRun("push", IF rows = <<>> THEN "done" ELSE "sending",
                            NoSnapshot, rows, 1, <<>>, 0, 0, "", idb, FALSE)
  /\ UNCHANGED <<storeName, updating, idb, memoryCache, dbClock, callResult, syncMeta, searchRun>>
  /\ UNCHANGED <<now, variant, msgRun, navRun, queueVars, swVars, serveVars>>

\* The loop of push issues the fetch for the row in hand.
PushSend ==
  /\ syncRun.op = "push"
  /\ syncRun.pc = "sending"
  /\ syncRun.inFlight = 0
  /\ syncRun' = [syncRun EXCEPT !.sent = Append(@, syncRun.rows[syncRun.next]),
                                !.inFlight = @ + 1]
  /\ UNCHANGED <<storeName, updating, idb, memoryCache, dbClock, callResult, syncMeta, searchRun>>
  /\ UNCHANGED <<now, variant, msgRun, navRun, queueVars, swVars, serveVars>>

\* A push that goes on to the next row whatever the answer was.
PushOnRegardless(run, outcome) ==
  [run EXCEPT !.inFlight = @ - 1,
              !.rejected = IF outcome # "ok" /\ @ = 0 THEN run.next ELSE @,
              !.next = @ + 1,
              !.pc = IF run.next = Len(run.rows) THEN "done" ELSE "sending"]

\* The call of push after the answer to the row in hand: the next turn of
\* the loop, the return after the last row, or the throw.
PushAfterResponse(run, outcome) ==
  IF outcome = "ok"
    THEN [run EXCEPT !.inFlight = @ - 1,
                     !.next = @ + 1,
                     !.pc = IF run.next = Len(run.rows) THEN "done" ELSE "sending"]
    ELSE [run EXCEPT !.inFlight = @ - 1,
                     !.rejected = run.next,
                     !.pc = "failed",
                     !.error = ApiError(outcome)]

\* The fetch of the row in hand settles and the response is checked.
PushResponse(outcome) ==
  /\ syncRun.op = "push"
  /\ syncRun.pc = "sending"
  /\ syncRun.inFlight > 0
  /\ syncRun' = PushAfterResponse(syncRun, outcome)
  /\ UNCHANGED <<storeName, updating, idb, memoryCache, dbClock, callResult, syncMeta, searchRun>>
  /\ UNCHANGED <<now, variant, msgRun, navRun, queueVars, swVars, serveVars>>

SyncNext ==
  \/ \E snapshot \in Snapshots : PullStart(snapshot)
  \/ \E outcome \in ApiOutcomes : PullResponse(outcome)
  \/ \E storeError \in StoreErrors : PullItem(storeError)
  \/ PullFinish
  \/ PushStart
  \/ PushSend
  \/ \E outcome \in ApiOutcomes : PushResponse(outcome)
  \/ \E t \in DbInstants : DbTick(t)

\* --- search ------------------------------------------------------------------

\* A text is the sequence of its characters; these are the characters of
\* the texts the page stores and asks for.
Chars == {"l", "y", "L", " "}

Texts(n) == UNION {[1..m -> Chars] : m \in 0..n}

\* String.prototype.toLowerCase
LowerChar(c) == IF c = "L" THEN "l" ELSE c

ToLowerCase(text) == [i \in 1..Len(text) |-> LowerChar(text[i])]

\* String.prototype.trim
RECURSIVE Trim(_)
Trim(text) ==
  IF text = <<>> THEN text
  ELSE IF Head(text) = " " THEN Trim(Tail(text))
  ELSE IF text[Len(text)] = " " THEN Trim(SubSeq(text, 1, Len(text) - 1))
  ELSE text

\* String.prototype.split(' '): the pieces between the spaces, empty pieces
\* included.
RECURSIVE Split(_)
Split(text) ==
  IF \A i \in 1..Len(text) : text[i] # " " THEN <<text>>
  ELSE LET at == CHOOSE i \in 1..Len(text) :
                   text[i] = " " /\ \A j \in 1..(i - 1) : text[j] # " "
       IN  <<SubSeq(text, 1, at - 1)>> \o Split(SubSeq(text, at + 1, Len(text)))

\* String.prototype.includes
Includes(text, part) ==
  \E i \in 0..(Len(text) - Len(part)) : SubSeq(text, i + 1, i + Len(part)) = part

\* The test of Store.search on one term of the index.
TermMatches(term, queryLower) == Includes(term, queryLower)

\* The text fields of a product that the search index is built from; <<>>
\* is a field the product does not have.
Product(name, description, brand, group) ==
  [TenSanPham |-> name, MoTa |-> description, Brand |-> brand, Group |-> group]

NoProduct == Product(<<>>, <<>>, <<>>, <<>>)

Range(seq) == {seq[i] : i \in DOMAIN seq}

\* _buildSearchIndex(product), duplicates removed.
BuildSearchIndex(product) ==
  (IF product.TenSanPham # <<>>
     THEN Range(Split(ToLowerCase(product.TenSanPham))) ELSE {})
    \cup (IF product.MoTa # <<>>
            THEN Range(Split(ToLowerCase(product.MoTa))) ELSE {})
    \cup (IF product.Brand # <<>> THEN {ToLowerCase(product.Brand)} ELSE {})
    \cup (IF product.Group # <<>> THEN {ToLowerCase(product.Group)} ELSE {})

\* Whether Store.search(query) returns a product with that index.
SearchReturns(searchIndex, query) ==
  \E term \in searchIndex : TermMatches(term, Trim(ToLowerCase(query)))

\* The products the page stores: any name, and a few descriptions, brands
\* and groups.
Products ==
  {Product(name, description, brand, group) :
     name \in Texts(MaxText),
     description \in {<<>>, <<"y">>},
     brand \in {<<>>, <<"L", "y">>, <<"l", " ", "y">>},
     group \in {<<>>, <<"L">>}}

\* The product in the store, its index, the query asked and whether the
\* product was among the results.
SearchRun(pc, product, searchIndex, query, returned) ==
  [pc |-> pc, product |-> product, searchIndex |-> searchIndex, query |-> query,
   returned |-> returned]

NoSearch == SearchRun("idle", NoProduct, {}, <<>>, FALSE)

\* db.products.add(product): the item is stored with its search index.
SearchAdd(product) ==
  /\ searchRun.pc = "idle"
  /\ searchRun' = SearchRun("stored", product, BuildSearchIndex(product), <<>>, FALSE)
  /\ UNCHANGED <<storeName, updating, idb, memoryCache, dbClock, callResult, syncMeta, syncRun>>
  /\ UNCHANGED <<now, variant, msgRun, navRun, queueVars, swVars, serveVars>>

\* db.products.search(query)
Search(query) ==
  /\ searchRun.pc = "stored"
  /\ searchRun' = [searchRun EXCEPT
                     !.pc = "answered",
                     !.query = query,
                     !.returned = SearchReturns(searchRun.searchIndex, query)]
  /\ UNCHANGED <<storeName, updating, idb, memoryCache, dbClock, callResult, syncMeta, syncRun>>
  /\ UNCHANGED <<now, variant, msgRun, navRun, queueVars, swVars, serveVars>>

SearchNext ==
  \/ \E product \in Products : SearchAdd(product)
  \/ \E query \in Texts(MaxText) : Search(query)

\* --- Store.update, step by step ------------------------------------------------

\* The callers that may have a Store.update call in progress at a time.
Callers == {1, 2}

\* The fields of a record other than its key and timestamp.
FieldNames == {"f", "g"}

Fields0(value) == [name \in FieldNames |-> value]

\* { ...item, ...updates } on the fields: updates wins where it names a
\* field.
MergeFields(data, updates) ==
  [name \in DOMAIN data \cup DOMAIN updates |->
     IF name \in DOMAIN updates THEN updates[name] ELSE data[name]]

\* The partial fields caller c passes: caller 1 writes f, caller 2 writes g.
UpdatesOf(c) == IF c = 1 THEN ("f" :> "b") ELSE ("g" :> "b")

\* A Store.update call: where it is, its arguments, what its Store.get
\* fulfilled with (found tells whether that is an item), and whether
\* another call was in progress at some time during this one.
UpdateCall(pc, key, updates, found, item, concurrent) ==
  [pc |-> pc, key |-> key, updates |-> updates, found |-> found, item |-> item,
   concurrent |-> concurrent]

NoUpdate == UpdateCall("idle", 0, <<>>, FALSE, Record(Fields0(""), 0), FALSE)

\* No call in progress, no request pending. requests holds the callers
\* whose IndexedDB request is pending, in the order their transactions were
\* created: the transactions of one object store run in that order.
NoUpdates == [calls |-> [c \in Callers |-> NoUpdate], requests |-> <<>>]

InProgress(call) == call.pc \in {"reading", "resolved", "writing"}

\* Store.update(key, updates) up to the first suspension: Store.get looks
\* into the memory cache synchronously and, on a miss, issues store.get in
\* a readonly transaction.
UpdateBegin(c, key) ==
  /\ updating.calls[c].pc = "idle"
  /\ LET others == \E d \in Callers \ {c} : InProgress(updating.calls[d])
         hit == key \in DOMAIN memoryCache
         call == UpdateCall(IF hit THEN "resolved" ELSE "reading", key, UpdatesOf(c),
                            hit, IF hit THEN memoryCache[key] ELSE NoUpdate.item,
                            others)
     IN  updating' =
           [calls |-> [d \in Callers |->
                         IF d = c THEN call
                         ELSE IF InProgress(updating.calls[d])
                           THEN [updating.calls[d] EXCEPT !.concurrent = TRUE]
                         ELSE updating.calls[d]],
            requests |-> IF hit THEN updating.requests
                         ELSE Append(updating.requests, c)]
  /\ UNCHANGED <<storeName, idb, memoryCache, dbClock, callResult, syncMeta, syncRun,
                 searchRun>>
  /\ UNCHANGED <<now, variant, msgRun, navRun, queueVars, swVars, serveVars>>

\* updatedItem of Store.update: the item Store.get fulfilled with, the
\* updates over it, and a fresh timestamp.
UpdatedItem(call, t) ==
  Record(MergeFields(call.item.data, call.updates), t)

\* The update call goes on after its await: it throws when Store.get found
\* nothing, else it issues store.put(updatedItem) in a readwrite
\* transaction. Promise reactions run before the next event.
UpdateContinue(c) ==
  /\ updating.calls[c].pc = "resolved"
  /\ LET call == updating.calls[c]
     IN  updating' =
           IF ~call.found
             THEN [updating EXCEPT !.calls[c].pc = "failed"]
             ELSE [updating EXCEPT
                     !.calls[c].pc = "writing",
                     !.calls[c].item = UpdatedItem(call, dbClock),
                     !.requests = Append(@, c)]
  /\ UNCHANGED <<storeName, idb, memoryCache, dbClock, callResult, syncMeta, syncRun,
                 searchRun>>
  /\ UNCHANGED <<now, variant, msgRun, navRun, queueVars, swVars, serveVars>>

\* The oldest pending request runs and its success event is delivered: a
\* store.get fulfils Store.get, which remembers an item it read; a
\* store.put stores updatedItem and the call sets it in the memory cache.
RequestSucceeds ==
  /\ updating.requests # <<>>
  /\ \A d \in Callers : updating.calls[d].pc # "resolved"
  /\ LET c == Head(updating.requests)
         call == updating.calls[c]
         stored == call.key \in DOMAIN idb
     IN  IF call.pc = "reading"
           THEN /\ updating' = [updating EXCEPT
                                  !.calls[c].pc = "resolved",
                                  !.calls[c].found = stored,
                                  !.calls[c].item = IF stored THEN idb[call.key] ELSE @,
                                  !.requests = Tail(@)]
                /\ memoryCache' = IF stored
                                    THEN ObjectStorePut(memoryCache, call.key, idb[call.key])
                                    ELSE memoryCache
                /\ UNCHANGED idb
           ELSE /\ updating' = [updating EXCEPT !.calls[c].pc = "done",
                                                !.requests = Tail(@)]
                /\ idb' = ObjectStorePut(idb, call.key, call.item)
                /\ memoryCache' = ObjectStorePut(memoryCache, call.key, call.item)
  /\ UNCHANGED <<storeName, dbClock, callResult, syncMeta, syncRun, searchRun>>
  /\ UNCHANGED <<now, variant, msgRun, navRun, queueVars, swVars, serveVars>>

\* Time passes in the page while update calls are in progress.
UpdateTick(t) ==
  /\ t \in DbInstants
  /\ t > dbClock
  /\ dbClock' = t
  /\ UNCHANGED <<storeName, idb, memoryCache, callResult, syncMeta, syncRun, searchRun,
                 updating>>
  /\ UNCHANGED <<now, variant, msgRun, navRun, queueVars, swVars, serveVars>>

UpdateNext ==
  \/ \E c \in Callers, key \in Keys : UpdateBegin(c, key)
  \/ \E c \in Callers : UpdateContinue(c)
  \/ RequestSucceeds
  \/ \E t \in DbInstants : UpdateTick(t)

\* LotusDB is not in use.
DbQuiet ==
  /\ storeName = ""
  /\ idb = <<>>
  /\ memoryCache = <<>>
  /\ dbClock = 0
  /\ callResult = NoCallYet
  /\ syncMeta = <<>>
  /\ syncRun = NoSync
  /\ searchRun = NoSearch
  /\ updating = NoUpdates

(***************************************************************************)
(* Part VI: the control messages of the worker                             *)
(***************************************************************************)

\* The typed messages whose handling may answer on a MessageChannel.
ReplyingTypes == {"CLEAR_CACHE", "GET_CACHE_STATS"}

\* A 'message' event once the promise handed to event.waitUntil settled:
\* its type, whether the sender transferred a port (event.ports[0]), what
\* was posted on the port ("none", "success" for {success: true}, "stats"
\* for the statistics, with their total) and whether the promise rejected.
Message(type, hasPort, reply, total, failed) ==
  [type |-> type, hasPort |-> hasPort, reply |-> reply, total |-> total,
   failed |-> failed]

NoMessage == Message("", FALSE, "none", 0, FALSE)

\* getCacheStats().total: the number of entries of all namespaces.
RECURSIVE TotalOf(_, _)
TotalOf(store, names) ==
  IF names = {} THEN 0
  ELSE LET name == CHOOSE n \in names : TRUE
       IN  Len(store[name]) + TotalOf(store, names \ {name})

getCacheStats(store) == TotalOf(store, DOMAIN store)

\* The 'message' listener of v2.0 for the two types: CLEAR_CACHE waits for
\* clearAllCaches and posts nothing; GET_CACHE_STATS posts the statistics
\* on event.ports[0], which is undefined without a channel, so that the
\* reaction throws a TypeError.
MessageListener20(store, type, hasPort) ==
  IF type = "CLEAR_CACHE"
    THEN Message(type, hasPort, "none", 0, FALSE)
    ELSE IF hasPort
           THEN Message(type, hasPort, "stats", getCacheStats(store), FALSE)
           ELSE Message(type, hasPort, "none", 0, TRUE)

\* The 'message' listener of v2.1: CLEAR_CACHE deletes every namespace and
\* then posts {success: true} on event.ports[0]; no other type but
\* SKIP_WAITING is looked at.
MessageListener21(store, type, hasPort) ==
  IF type = "CLEAR_CACHE"
    THEN IF hasPort
           THEN Message(type, hasPort, "success", 0, FALSE)
           ELSE Message(type, hasPort, "none", 0, TRUE)
    ELSE Message(type, hasPort, "none", 0, FALSE)

\* clearAllCaches, and the same loop in the listener of v2.1:
\* caches.delete of every name caches.keys() lists.
clearAllCaches(store) == <<>>

\* A page posts a message of one of the two types, with or without a port,
\* and the promise handed to waitUntil settles.
ControlMessage(type, hasPort) ==
  /\ Controlling
  /\ msgRun' = IF variant = "v20" THEN MessageListener20(caches, type, hasPort)
               ELSE MessageListener21(caches, type, hasPort)
  /\ caches' = IF type = "CLEAR_CACHE" THEN clearAllCaches(caches) ELSE caches
  /\ UNCHANGED <<now, variant, navRun, dbVars, queueVars, serveVars, swState,
                 skipWaitingFlag, precacheFailed, previous, control, deletedLog,
                 handlers, nPuts, nImages, nPages, orderly>>

(***************************************************************************)
(* Part VII: the hash router of the page                                   *)
(***************************************************************************)

\* The fragment of the location (location.hash without its '#') is a
\* sequence of tokens: "/" or a word, a word being a maximal run of
\* characters other than '/'.
PathWords == {"product", "cart", "checkout", "search", "404", "about", "7"}
Tokens == {"/"} \cup PathWords

RECURSIVE SeqsUpTo(_, _)
SeqsUpTo(S, n) ==
  IF n = 0 THEN {<<>>}
  ELSE SeqsUpTo(S, n - 1)
         \cup {Append(q, x) : q \in {r \in SeqsUpTo(S, n - 1) : Len(r) = n - 1}, x \in S}

Fragments ==
  {f \in SeqsUpTo(Tokens, MaxHash) :
     \A i \in 1..(Len(f) - 1) : f[i] = "/" \/ f[i + 1] = "/"}

\* window.location.hash.slice(1) || '/'
HashOf(fragment) == IF fragment = <<>> THEN <<"/">> ELSE fragment

\* hash.split('/').filter(Boolean): the words, in order.
Segments(hash) == SelectSeq(hash, LAMBDA t : t # "/")

\* The keys registerRoutes registers.
RegisteredRoutes == {"/", "/product/:id", "/cart", "/checkout", "/search", "/404"}

\* this.routes[`/${path}`] for a path that is a word: the words that, behind
\* a slash, are a registered key.
RouteOfWord == [w \in PathWords |->
  CASE w = "cart" -> "/cart"
    [] w = "checkout" -> "/checkout"
    [] w = "search" -> "/search"
    [] w = "404" -> "/404"
    [] OTHER -> ""]

\* A handler call: the key of the route and the argument handed over
\* (<<>> for none or undefined).
Invocation(route, arg) == [route |-> route, arg |-> arg]

\* The calls handleRoute makes for a hash. handler starts as the home
\* handler and is called in none of the branches; being truthy it keeps the
\* final test from reaching the '/404' handler.
Invoked(hash) ==
  LET segs == Segments(hash)
      path == IF segs = <<>> THEN <<>> ELSE <<segs[1]>>
      params == IF segs = <<>> THEN <<>> ELSE Tail(segs)
      first == IF params = <<>> THEN <<>> ELSE <<params[1]>>
  IN  IF path = <<"product">> /\ params # <<>>
        THEN <<Invocation("/product/:id", first)>>
      ELSE IF path = <<"cart">> THEN <<Invocation("/cart", <<>>)>>
      ELSE IF path = <<"checkout">> THEN <<Invocation("/checkout", <<>>)>>
      ELSE IF path = <<"search">> THEN <<Invocation("/search", first)>>
      ELSE IF path # <<>> /\ RouteOfWord[path[1]] # ""
        THEN <<Invocation(RouteOfWord[path[1]], <<>>)>>
      ELSE <<>>

\* A Router.handleRoute() call: the event whose listener made it, the
\* fragment of the location, State.currentRoute and the handlers invoked.
Navigation(event, fragment, currentRoute, invoked) ==
  [event |-> event, fragment |-> fragment, currentRoute |-> currentRoute,
   invoked |-> invoked]

NoNavigation == Navigation("", <<>>, <<>>, <<>>)

\* The call made by the listener of the event.
handleRoute(event, fragment) ==
  Navigation(event, fragment, HashOf(fragment), Invoked(HashOf(fragment)))

\* The 'load' event of the window: the first handleRoute call.
Load(fragment) ==
  /\ navRun = NoNavigation
  /\ navRun' = handleRoute("load", fragment)
  /\ UNCHANGED <<now, variant, msgRun, queueVars, swVars, serveVars, dbVars>>

\* A 'hashchange' event: the fragment has become another one.
HashChange(fragment) ==
  /\ navRun # NoNavigation
  /\ fragment # navRun.fragment
  /\ navRun' = handleRoute("hashchange", fragment)
  /\ UNCHANGED <<now, variant, msgRun, queueVars, swVars, serveVars, dbVars>>

\* Neither a message nor a navigation has happened.
PageQuiet ==
  /\ msgRun = NoMessage
  /\ navRun = NoNavigation

(***************************************************************************)
(* Specifications                                                          *)
(***************************************************************************)

\* Cache names other code of the origin, or an older build, has left behind.
ExternalNames ==
  {CACHE_PREFIX \o <<"-static-v", "1.0.0">>, CACHE_PREFIX \o <<"-tmp">>,
   CACHE_PREFIX_21 \o <<"-v", "2.0.0">>, <<"my-">> \o CACHES.STATIC}

\* The first n images, or pages, as a namespace holds them after n completed
\* inserts.
FirstEntries(n, U(_)) == [i \in 1..n |-> Entry(U(i))]

\* The images and the pages an earlier deployment of the same script has
\* put while its pages were in use (warm): in v2.0 one short of the ceilings
\* of their namespaces, in v2.1 one each.
WarmImages(v, warm) ==
  IF ~warm THEN 0 ELSE IF v = "v20" THEN CACHE_LIMITS.IMAGES - 1 ELSE 1

WarmPages(v, warm) ==
  IF ~warm THEN 0 ELSE IF v = "v20" THEN CACHE_LIMITS.DYNAMIC - 1 ELSE 1

\* CacheStorage as that deployment leaves it: its precache and what its
\* fetch handlers have put, every handler having completed before the next
\* request.
LeftBehind(v, warm) ==
  IF ~warm THEN Precached(<<>>, v)
  ELSE IF v = "v20"
    THEN Precached(<<>>, v)
         @@ (CACHES.IMAGES :> FirstEntries(WarmImages(v, warm), ImageUrl))
         @@ (CACHES.DYNAMIC :> FirstEntries(WarmPages(v, warm), PageUrl))
    ELSE [Precached(<<>>, v) EXCEPT
            ![CACHE_NAME] = @ \o FirstEntries(WarmPages(v, warm), PageUrl)]
         @@ (PatternCache("-images") :> FirstEntries(WarmImages(v, warm), ImageUrl))

\* The worker script has been parsed and is about to be installed.
WorkerInit ==
  /\ swState = "parsed"
  /\ skipWaitingFlag = FALSE
  /\ precacheFailed = FALSE
  /\ previous \in {"none", "same"}
  /\ control = IF previous = "none" THEN "none" ELSE "previous"
  /\ \E names \in SUBSET ExternalNames, warm \in BOOLEAN :
       /\ warm => previous = "same"
       /\ caches = [name \in names |-> <<>>]
                   @@ (IF previous = "same" THEN LeftBehind(variant, warm) ELSE <<>>)
       /\ nImages = WarmImages(variant, warm)
       /\ nPages = WarmPages(variant, warm)
  /\ deletedLog = {}
  /\ handlers = {}
  /\ nPuts = 0
  /\ orderly = TRUE

\* The worker in control after a clean install and activation, on top of
\* what an earlier deployment left behind (warm) or of nothing.
WorkerActive(warm) ==
  /\ swState = "activated"
  /\ skipWaitingFlag = TRUE
  /\ precacheFailed = FALSE
  /\ previous = IF warm THEN "same" ELSE "none"
  /\ control = "this"
  /\ LET before == Precached(IF warm THEN LeftBehind(variant, warm) ELSE <<>>, variant)
     IN  /\ deletedLog = OldCaches(before, variant)
         /\ caches = DeleteAll(before, OldCaches(before, variant))
         /\ nImages = IF CACHES.IMAGES \in DOMAIN caches
                        THEN Len(caches[CACHES.IMAGES]) ELSE 0
  /\ nPages = WarmPages(variant, warm)
  /\ handlers = {}
  /\ nPuts = 0
  /\ orderly = TRUE

\* The queue as the worker finds it: empty and idle.
QueueQuiet == QueueInit /\ hostSync = TRUE

Init ==
  /\ variant \in {"v20", "v21"}
  /\ QueueInit
  /\ WorkerActive(FALSE)
  /\ ServeQuiet
  /\ DbQuiet
  /\ PageQuiet

Spec == Init /\ [][QueueNext]_vars

InitSW ==
  /\ variant \in {"v20", "v21"}
  /\ QueueQuiet
  /\ WorkerInit
  /\ ServeQuiet
  /\ DbQuiet
  /\ PageQuiet

SpecSW == InitSW /\ [][WorkerNext]_vars

InitFetch ==
  /\ variant \in {"v20", "v21"}
  /\ QueueQuiet
  /\ \E warm \in BOOLEAN : WorkerActive(warm)
  /\ ServeQuiet
  /\ DbQuiet
  /\ PageQuiet

SpecFetch == InitFetch /\ [][FetchNext]_vars

\* The 'fetch' listener alone, as a function of the request: either worker,
\* queue idle, caches as activation left them.
InitRoute ==
  /\ variant \in {"v20", "v21"}
  /\ QueueQuiet
  /\ WorkerActive(FALSE)
  /\ ServeQuiet
  /\ DbQuiet
  /\ PageQuiet

SpecRoute == InitRoute /\ [][RouteNext]_vars

\* The handlers of the worker in control of a first deployment: the install
\* found every precache URL answering 200, or the site unreachable (0), and
\* nothing has been requested yet.
InitServe ==
  /\ variant \in {"v20", "v21"}
  /\ QueueQuiet
  /\ \E status \in {0, 200} :
       /\ precacheFailed = ~AddAllStores(status)
       /\ skipWaitingFlag = AddAllStores(status)
       /\ caches = (PrecacheName(variant) :>
                     IF AddAllStores(status)
                       THEN PrecachedAt(variant, status, InstallTime) ELSE <<>>)
  /\ swState = "activated"
  /\ previous = "none"
  /\ control = "this"
  /\ deletedLog = {}
  /\ handlers = {}
  /\ nPuts = 0
  /\ nImages = 0
  /\ nPages = 0
  /\ orderly = TRUE
  /\ handlings = <<>>
  /\ swClock = InstallTime
  /\ routeReq = NoRequest
  /\ routeOf = NoRoute
  /\ DbQuiet
  /\ PageQuiet

SpecServe == InitServe /\ [][ServeNext]_vars

\* The v2.0 worker of SpecServe on a host that also fires the periodic
\* sync the pages register for the cache sweep.
InitSweep == InitServe /\ variant = "v20"

SweepNext ==
  \/ ServeNext
  \/ PeriodicCacheCleanup

SpecSweep == InitSweep /\ [][SweepNext]_vars

\* A page with a fresh LotusDB instance, init() done, and its calls on one
\* of the stores that have a configured TTL: each call is awaited before the
\* next is made.
InitStore ==
  /\ variant \in {"v20", "v21"}
  /\ QueueQuiet
  /\ WorkerActive(FALSE)
  /\ ServeQuiet
  /\ storeName \in {STORES.PRODUCTS, STORES.CATEGORIES, STORES.SETTINGS}
  /\ idb = <<>>
  /\ memoryCache = <<>>
  /\ dbClock = 500
  /\ callResult = NoCallYet
  /\ syncMeta = <<>>
  /\ syncRun = NoSync
  /\ searchRun = NoSearch
  /\ updating = NoUpdates
  /\ PageQuiet

SpecStore == InitStore /\ [][StoreNext]_vars

\* A page with an initialised LotusDB whose observed store is empty, and
\* the calls of its SyncEngine on that store, one call at a time.
InitSync ==
  /\ variant = "v21"
  /\ QueueQuiet
  /\ WorkerActive(FALSE)
  /\ ServeQuiet
  /\ storeName \in {STORES.PRODUCTS, STORES.SETTINGS}
  /\ idb = <<>>
  /\ memoryCache = <<>>
  /\ dbClock = 500
  /\ callResult = NoCallYet
  /\ syncMeta = <<>>
  /\ syncRun = NoSync
  /\ searchRun = NoSearch
  /\ updating = NoUpdates
  /\ PageQuiet

SpecSync == InitSync /\ [][SyncNext]_vars

\* A page with an initialised LotusDB and an empty products store: one
\* product is added and then searched for.
InitSearch ==
  /\ variant = "v21"
  /\ QueueQuiet
  /\ WorkerActive(FALSE)
  /\ ServeQuiet
  /\ storeName = STORES.PRODUCTS
  /\ idb = <<>>
  /\ memoryCache = <<>>
  /\ dbClock = 500
  /\ callResult = NoCallYet
  /\ syncMeta = <<>>
  /\ syncRun = NoSync
  /\ searchRun = NoSearch
  /\ updating = NoUpdates
  /\ PageQuiet

SpecSearch == InitSearch /\ [][SearchNext]_vars

\* A page with an initialised LotusDB whose observed store holds records
\* of two fields, one of them perhaps read before, and two callers of
\* Store.update.
InitUpdate ==
  /\ variant = "v21"
  /\ QueueQuiet
  /\ WorkerActive(FALSE)
  /\ ServeQuiet
  /\ storeName = STORES.PRODUCTS
  /\ \E keys \in SUBSET Keys, cached \in SUBSET Keys :
       /\ cached \subseteq keys
       /\ idb = [k \in keys |-> Record(Fields0("a"), 500)]
       /\ memoryCache = [k \in cached |-> Record(Fields0("a"), 500)]
  /\ dbClock = 500
  /\ callResult = NoCallYet
  /\ syncMeta = <<>>
  /\ syncRun = NoSync
  /\ searchRun = NoSearch
  /\ updating = NoUpdates
  /\ PageQuiet

SpecUpdate == InitUpdate /\ [][UpdateNext]_vars

\* The v2.1 worker in control on an origin whose CacheStorage also holds
\* namespaces the v2.0 worker left there, which the activation of v2.1 does
\* not delete: some of its images, pages and static assets.
ForeignEntries ==
  (CACHES.IMAGES :> <<Response(ImageUrl(1), 200, <<InstallTime>>, InstallTime)>>)
    @@ (CACHES.DYNAMIC :> <<Response(PageUrl(1), 200, <<InstallTime>>, InstallTime)>>)
    @@ (CACHES.STATIC :> <<Response(ScriptUrl, 200, <<InstallTime>>, InstallTime)>>)

InitNamespace ==
  /\ variant = "v21"
  /\ QueueQuiet
  /\ \E names \in SUBSET DOMAIN ForeignEntries :
       caches = (CACHE_NAME :> PrecachedAt(variant, 200, InstallTime))
                  @@ [name \in names |-> ForeignEntries[name]]
  /\ precacheFailed = FALSE
  /\ skipWaitingFlag = TRUE
  /\ swState = "activated"
  /\ previous = "none"
  /\ control = "this"
  /\ deletedLog = {}
  /\ handlers = {}
  /\ nPuts = 0
  /\ nImages = 0
  /\ nPages = 0
  /\ orderly = TRUE
  /\ handlings = <<>>
  /\ swClock = InstallTime
  /\ routeReq = NoRequest
  /\ routeOf = NoRoute
  /\ DbQuiet
  /\ PageQuiet

\* CACHE_URLS is a message of the v2.0 worker only.
NamespaceNext ==
  \/ \E r \in ServeRequests : Dispatch(r)
  \/ \E i \in 1..MaxRuns, answer \in Answers, dated \in BOOLEAN :
       NetworkAnswers(i, answer, dated)
  \/ \E i \in 1..MaxRuns : PutDone(i)
  \/ \E t \in ClockInstants : Tick(t)

SpecNamespace == InitNamespace /\ [][NamespaceNext]_vars

\* The worker of SpecSW with pages that post the control messages to the
\* worker that controls them.
MessageNext ==
  \/ WorkerNext
  \/ \E type \in ReplyingTypes, hasPort \in BOOLEAN : ControlMessage(type, hasPort)

SpecMessage == InitSW /\ [][MessageNext]_vars

\* The page from its 'load' event on, through every change of the fragment.
InitRouter ==
  /\ variant \in {"v20", "v21"}
  /\ QueueQuiet
  /\ WorkerActive(FALSE)
  /\ ServeQuiet
  /\ DbQuiet
  /\ PageQuiet

RouterNext ==
  \/ \E fragment \in Fragments : Load(fragment)
  \/ \E fragment \in Fragments : HashChange(fragment)

SpecRouter == InitRouter /\ [][RouterNext]_vars

\* Every row a createOrder call can store.
Rows == {NewRow(c, t) : c \in CallIds, t \in 0..(MaxTime - 1)}

\* The host fires every sync registration it holds.
HostFiresRegistered == \E dbOpens \in BOOLEAN : SyncEvent("sync-orders", TRUE, dbOpens)

\* The remote accepts the replay of the row stored under id i.
RemoteAccepts(i) ==
  \E dr \in BagToSet(drains) : CurrentOrder(dr).id = i /\ DrainPost(dr, "ok")

\* The scheduling the delivery guarantee is stated under: registered signals
\* are fired, connectivity returns and the remote eventually accepts each
\* write, and a started delete completes.
FairSpec ==
  /\ Init
  /\ [][QueueNext]_vars
  /\ WF_vars(HostFiresRegistered)
  /\ \A i \in 0..(MaxTime - 1) : SF_vars(RemoteAccepts(i))
  /\ WF_vars(\E dr \in BagToSet(drains) : DrainRemove(dr))

(***************************************************************************)
(* Claims on the pending-orders queue                                      *)
(***************************************************************************)

Delivered(r) == <<r.id, r.data>> \in acked

InCreationOrder(orders) ==
  \A i, j \in 1..Len(orders) : i < j => orders[i].id < orders[j].id

C2_RemovedOnlyAfterDelivery ==
  /\ pending \subseteq added
  /\ \A r \in added \ pending : Delivered(r)

\* C2 witness: two interleaved runs delivered the same row; one has removed
\* it and the other is about to delete it again.
C2_Witness ==
  \E dr \in BagToSet(drains) :
    /\ BagCardinality(drains) = 2
    /\ dr.pc = "removing"
    /\ CurrentOrder(dr) \in added \ pending

\* C3: at-least-once delivery: under FairSpec, in a host that offers
\* background sync, every queued write is eventually POSTed successfully and
\* removed from the queue.
C3_AtLeastOnceDelivery ==
  \A r \in Rows :
    (hostSync /\ r \in pending) ~> (Delivered(r) /\ r \notin pending)

\* C4: a write whose network attempt failed is never silently lost: when
\* createOrder ends with nothing but the network error for its caller, the
\* order is in the queue with its payload and endpoint (or was delivered from
\* there).
C4_FailedWriteQueuedOrReported ==
  lastCall.result = "network error" =>
    \/ \E r \in pending : r.data = OrderData(lastCall.call) /\ r.apiUrl = API_URL
    \/ \E r \in added : r.data = OrderData(lastCall.call) /\ Delivered(r)

\* C5: an enqueue in a host that offers background sync registers the
\* 'sync-orders' signal after storing the order.
C5_EnqueueRegistersSync ==
  [][(lastCall'.call # lastCall.call /\ lastCall'.save = "stored" /\ hostSync)
       => "sync-orders" \in syncTags']_vars

(***************************************************************************)
(* Claims on the service workers                                           *)
(***************************************************************************)

\* C6: install fails as a whole when a precache fetch fails: the worker whose
\* cache.addAll rejected does not become installed, is not activated and
\* does not take control of the pages.
C6_InstallFailsWithPrecache ==
  precacheFailed => (swState \notin {"installed", "activated"} /\ control # "this")

\* A step is the run of the 'activate' listener of worker v.
ActivateStep(v) == variant = v /\ swState = "installed" /\ swState' = "activated"

\* The names of ExternalNames, spelt out, that begin with 'lotus-glass-pwa'
\* and are none of the five current names of v2.0.
StaleNames20 ==
  {<<"lotus-glass-pwa", "-static-v", "1.0.0">>, <<"lotus-glass-pwa", "-tmp">>}

\* C7: activation of v2.0 deletes exactly the existing names that start with
\* the cache prefix and are not one of the five current names: no current
\* namespace and no namespace without the prefix is deleted, and what is
\* kept keeps its entries.
C7_ActivateDeletesExactlyStale ==
  [][ActivateStep("v20") =>
       /\ DOMAIN caches \ DOMAIN caches' = DOMAIN caches \cap StaleNames20
       /\ DOMAIN caches' \subseteq DOMAIN caches
       /\ \A name \in DOMAIN caches :
            (name \in CachesValues \/ name[1] # "lotus-glass-pwa")
               => name \in DOMAIN caches'
       /\ \A name \in DOMAIN caches' : caches'[name] = caches[name]]_vars

\* C7 witness: v2.0 has been activated over stale, foreign and filled current
\* namespaces: both stale names were deleted, the two names without the
\* prefix and the filled image namespace are still there.
C7_Witness ==
  /\ variant = "v20" /\ swState = "activated"
  /\ deletedLog = StaleNames20
  /\ <<"my-">> \o CACHES.STATIC \in DOMAIN caches
  /\ <<"pvt-pwa", "-v", "2.0.0">> \in DOMAIN caches
  /\ CACHES.IMAGES \in DOMAIN caches
  /\ Len(caches[CACHES.IMAGES]) = CACHE_LIMITS.IMAGES - 1

\* C8: activation of v2.1 deletes no namespace its fetch router stores into:
\* each of them that exists before the activation exists after it, with the
\* same entries.
C8_ActivateKeepsRouterCaches ==
  [][ActivateStep("v21") =>
       \A name \in RouterCaches21 \cap DOMAIN caches :
          name \in DOMAIN caches' /\ caches'[name] = caches[name]]_vars

\* The entries a namespace holds when it keeps the newest maxItems of the
\* images 1..n.
NewestImages(n, maxItems) ==
  LET kept == IF n > maxItems THEN maxItems ELSE n
  IN  [i \in 1..kept |-> Entry(ImageUrl(n - kept + i))]

\* C9: after maxItems + k cache-first inserts of distinct keys, each handler
\* completed before the next request, the image namespace holds exactly
\* maxItems entries: the k oldest are gone, the newest maxItems are there.
C9_EvictionKeepsNewest ==
  (variant = "v20" /\ orderly /\ Quiescent /\ nImages >= CACHE_LIMITS.IMAGES)
    => Entries(caches, CACHES.IMAGES) = NewestImages(nImages, CACHE_LIMITS.IMAGES)

\* C10: once every fetch handler of v2.0 has completed, each namespace with
\* a configured ceiling holds at most that many entries.
C10_CeilingsEnforced ==
  (variant = "v20" /\ Quiescent)
    => \A role \in DOMAIN CACHE_LIMITS :
         Len(Entries(caches, CACHES[role])) <= CACHE_LIMITS[role]

\* --- claims on classification and on the handlers' responses -------------

\* The request of the last 'fetch' event is one the listener answers.
Answered == routeReq.method = "GET" /\ IsHttp(routeReq.url)

\* What ordered first-match over the rules of the variant prescribes.
FirstMatchRoute(v, url) ==
  IF FirstMatch(v, url) = 0 THEN DefaultRoute(v) ELSE RuleRoute(v, FirstMatch(v, url))

\* C20 (as stated): a GET URL is handled by the policy and namespace of the
\* earliest rule that matches it (v2.0: API, image, font, static asset;
\* v2.1: CACHE_PATTERNS in array order), and a GET URL that matches no rule
\* is handled network-first against the dynamic (default) namespace.
C20_OrderedFirstMatch ==
  Answered => routeOf = FirstMatchRoute(variant, routeReq.url)

\* C20 (amended): as stated for v2.0; in v2.1 a URL that contains
\* script.google.com is passed to the network with no policy and no
\* namespace, whatever rules it matches, and every other GET URL is handled
\* by the earliest matching CACHE_PATTERNS entry, or network-first against
\* CACHE_NAME when none matches.
C20_FirstMatchAfterBypass ==
  Answered =>
    routeOf = IF variant = "v21" /\ Contains(routeReq.url, "script.google.com")
               THEN RouteTo("passthrough", <<>>)
               ELSE FirstMatchRoute(variant, routeReq.url)

\* A GET URL that matches both the API rule and the image rule of v2.0 has
\* been routed by the API rule, the earlier of the two.
C20_Witness ==
  /\ variant = "v20"
  /\ Answered
  /\ MatchingRules("v20", routeReq.url) = {1, 2}
  /\ routeOf = Rule20Route(1)

\* A 'fetch' event is dispatched in this step; Dispatched is its handling
\* as the step leaves it.
Dispatching == Len(handlings') = Len(handlings) + 1
Dispatched == handlings'[Len(handlings')]

\* The entry the namespace of a v2.0 route holds for the URL.
OwnEntry(route, url) == MatchResponse(Entries(caches, route.cacheName), url)

\* C11: when cacheFirstStrategy of v2.0 is called while its namespace holds
\* an entry for the request that was stored less than the maxAge of the
\* namespace ago, that entry is returned and fetch() is not called.
C11_YoungEntryServedWithoutFetch ==
  [][(/\ variant = "v20"
      /\ Dispatching
      /\ Dispatched.route.strategy = "cache-first"
      /\ OwnEntry(Dispatched.route, Dispatched.req.url) # NoResponse
      /\ swClock - OwnEntry(Dispatched.route, Dispatched.req.url).storedAt
           < MaxAge(Dispatched.route.cacheName))
     => /\ ~Dispatched.fetched
        /\ Dispatched.result =
             Responded("cache", OwnEntry(Dispatched.route, Dispatched.req.url))]_vars

\* fetch() was called for the handling and rejected.
FetchFailed(h) == h.fetched /\ h.pc # "fetching" /\ h.answer = 0

\* The handlings that went through the strategy.
HandlingsOf(strategy) ==
  {i \in 1..Len(handlings) : handlings[i].route.strategy = strategy}

\* C12: a cache-first handling whose fetch failed returns the stale entry
\* its lookup found if there was one, and otherwise rejects with the fetch
\* failure.
C12_CacheFirstFailureStaleOrPropagate ==
  \A i \in HandlingsOf("cache-first") :
     FetchFailed(handlings[i]) =>
       handlings[i].result = IF handlings[i].hit # NoResponse
                               THEN Responded("cache", handlings[i].hit)
                               ELSE Rejected

\* The handlings through one of the three strategies.
Strategies == {"network-first", "cache-first", "stale-while-revalidate"}

\* C13: every handling through a strategy, once fetch() has settled, has
\* handed respondWith a response, never a rejection and never undefined;
\* when the fetch failed and the cache had nothing for the request, the
\* response is a synthetic one with a declared status.
C13_HandlerAlwaysResponds ==
  \A i \in 1..Len(handlings) :
     (handlings[i].route.strategy \in Strategies /\ handlings[i].pc # "fetching")
       => /\ handlings[i].result.kind = "response"
          /\ (FetchFailed(handlings[i]) /\ handlings[i].result.source \notin {"cache", "offline"})
               => handlings[i].result.source = "synthetic"

\* fetch() rejects for handling i in this step.
FetchFailing(i) ==
  /\ i \in 1..Len(handlings)
  /\ Len(handlings') = Len(handlings)
  /\ handlings[i].pc = "fetching"
  /\ FetchFailed(handlings'[i])

\* C14: in v2.0, after an install whose precache succeeded, a network-first
\* handling whose fetch fails while the dynamic namespace has no entry for
\* the request answers a navigation with the offline fallback document and
\* any other request with the synthetic 503.
C14_OfflineFallbackForNavigation ==
  [][\A i \in HandlingsOf("network-first") :
       (/\ variant = "v20"
        /\ ~precacheFailed
        /\ FetchFailing(i)
        /\ OwnEntry(handlings[i].route, handlings[i].req.url) = NoResponse)
       => IF handlings[i].navigate
            THEN /\ handlings'[i].result.kind = "response"
                 /\ handlings'[i].result.source = "offline"
                 /\ handlings'[i].result.resp.url = OfflinePage("v20")
            ELSE handlings'[i].result =
                   Responded("synthetic", Synthetic(handlings[i].req.url, 503))]_vars

\* C15: a network-first handling that was dispatched after a network-first
\* handling of the same request had returned a 2xx response of the network,
\* and whose own fetch fails, returns the cached response for the request,
\* not the offline fallback and not the 503.
C15_WriteThroughServesLaterFailure ==
  \A i \in HandlingsOf("network-first") :
     (handlings[i].revisit /\ FetchFailed(handlings[i]))
       => /\ handlings[i].result.kind = "response"
          /\ handlings[i].result.source = "cache"
          /\ handlings[i].result.resp.url = handlings[i].req.url

\* The entry a strategy of the variant can see for the URL: that of its own
\* namespace in v2.0, that of any namespace in v2.1.
CachedFor(route, url) ==
  IF variant = "v20" THEN OwnEntry(route, url) ELSE GlobalMatch(caches, url)

\* C16: a stale-while-revalidate handling that finds a cached entry for the
\* request returns that entry at once and keeps that answer whatever the
\* background fetch does; when the background fetch fails, no namespace
\* changes.
C16_StaleEntryReturnedWhateverTheFetch ==
  [][/\ (/\ Dispatching
          /\ Dispatched.route.strategy = "stale-while-revalidate"
          /\ CachedFor(Dispatched.route, Dispatched.req.url) # NoResponse)
         => Dispatched.result =
              Responded("cache", CachedFor(Dispatched.route, Dispatched.req.url))
     /\ \A i \in HandlingsOf("stale-while-revalidate") :
          handlings[i].hit # NoResponse
            => /\ handlings'[i].result = Responded("cache", handlings[i].hit)
               /\ FetchFailing(i) => caches' = caches]_vars

\* A stale-while-revalidate handling has returned the entry it found, its
\* background fetch has failed, and the entry is still the one in the cache.
C16_Witness ==
  \E i \in HandlingsOf("stale-while-revalidate") :
     /\ handlings[i].hit # NoResponse
     /\ FetchFailed(handlings[i])
     /\ handlings[i].result = Responded("cache", handlings[i].hit)
     /\ CachedFor(handlings[i].route, handlings[i].req.url) = handlings[i].hit

\* C17: in both workers a stale-while-revalidate handling writes the
\* response of its background fetch to the cache if and only if the status
\* is 2xx (any 2xx, not only 200); once the write is done the namespace has
\* an entry for the request.
C17_RevalidateStoresEvery2xx ==
  \A i \in HandlingsOf("stale-while-revalidate") :
     handlings[i].pc # "fetching"
       => /\ (handlings[i].put # NoResponse) <=> (handlings[i].answer \in 200..299)
          /\ (handlings[i].pc = "done" /\ handlings[i].put # NoResponse)
               => Match(Entries(caches, handlings[i].route.cacheName),
                        handlings[i].req.url)

\* C18: no namespace ever holds an entry whose response status is outside
\* 200..299, whatever install, the fetch handlings and the CACHE_URLS
\* messages have done.
C18_OnlySuccessfulResponsesCached ==
  \A name \in DOMAIN caches :
     \A k \in 1..Len(caches[name]) : caches[name][k].status \in 200..299

\* The precache, a CACHE_URLS message and a fetch handling have each stored
\* an entry, and a handling whose fetch was answered 404 has completed
\* leaving no entry for its request.
C18_Witness ==
  /\ variant = "v20"
  /\ Len(Entries(caches, CACHES.STATIC)) > 0
  /\ Match(Entries(caches, CACHES.DYNAMIC), OfflinePage("v20"))
  /\ \E i \in 1..Len(handlings) :
       /\ handlings[i].pc = "done"
       /\ handlings[i].put # NoResponse
       /\ Match(Entries(caches, handlings[i].route.cacheName), handlings[i].req.url)
  /\ \E i \in 1..Len(handlings) :
       /\ handlings[i].pc = "done"
       /\ handlings[i].answer = 404
       /\ ~Match(Entries(caches, handlings[i].route.cacheName), handlings[i].req.url)

\* The request is one the listeners skip: not a GET, or not http(s).
Skipped(req) == req.method # "GET" \/ ~IsHttp(req.url)

\* C19: for a request whose method is not GET or whose scheme is not
\* http/https the listener returns without calling respondWith: the step
\* that dispatches it changes no namespace, issues no lookup, no fetch and no
\* put, and its handling never changes afterwards.
C19_SkippedRequestsUntouched ==
  [][/\ (Dispatching /\ Skipped(Dispatched.req))
         => /\ caches' = caches
            /\ Dispatched.result = NotAnswered
            /\ Dispatched.pc = "done"
            /\ ~Dispatched.fetched
            /\ Dispatched.hit = NoResponse
            /\ Dispatched.put = NoResponse
     /\ \A i \in 1..Len(handlings) :
          Skipped(handlings[i].req) => handlings'[i] = handlings[i]]_vars

\* A POST and a request of a browser extension have both been dispatched
\* and left unanswered.
C19_Witness ==
  \E i, j \in 1..Len(handlings) :
     /\ handlings[i].req.method = "POST"
     /\ handlings[i].result = NotAnswered
     /\ handlings[j].req.method = "GET"
     /\ ~IsHttp(handlings[j].req.url)
     /\ handlings[j].result = NotAnswered

\* C21: Store.update(key, updates) rejects with a not-found error and writes
\* nothing whenever the object store holds no record under key, whatever
\* calls and sweeps came before; it never re-creates an absent record.
C21_UpdateOfAbsentKeyFails ==
  [][\A key \in Keys, updates \in Updates :
       (StoreUpdate(key, updates) /\ key \notin DOMAIN idb)
         => (callResult'.error # "" /\ idb' = idb)]_vars

\* C22: Store.get(key) never fulfils with a record that is absent from the
\* object store, and fulfils with the record the object store holds for key.
C22_GetReturnsWhatIsStored ==
  callResult.op = "get"
    => callResult.value = ObjectStoreGet(idb, callResult.key)

C27_SweepDeletesExactlyTheExpired ==
  [][\A ttl \in CallerTTLs :
       (CleanupStoreCall(ttl) /\ HasTimestampIndex(storeName))
         => /\ DOMAIN idb' = {k \in DOMAIN idb : ~(dbClock - idb[k].timestamp > ttl)}
            /\ \A k \in DOMAIN idb' : idb'[k] = idb[k]
            /\ (ttl = 1000 /\ dbClock = 2000)
                 => \A k \in DOMAIN idb :
                      /\ idb[k].timestamp = 500 => k \notin DOMAIN idb'
                      /\ idb[k].timestamp = 1200 => k \in DOMAIN idb']_vars

\* C27 witness: a sweep at 2000 has run over a store that held a record
\* stored at 500 and one stored at 1200; only the latter is left.
C27_Witness ==
  /\ callResult.op = "_cleanupStore"
  /\ callResult.error = ""
  /\ dbClock = 2000
  /\ \E k \in Keys :
       /\ DOMAIN idb = {k}
       /\ idb[k].timestamp = 1200
       /\ Keys \ {k} \subseteq DOMAIN memoryCache
       /\ \A j \in Keys \ {k} : memoryCache[j].timestamp = 500

\* The TTL configured for a store.
ConfiguredTTL(name) ==
  IF name = STORES.PRODUCTS THEN TTL.PRODUCTS
  ELSE IF name = STORES.CATEGORIES THEN TTL.CATEGORIES
  ELSE TTL.SETTINGS

\* C28: when _cleanupExpiredData completes at time now, none of the stores
\* products, categories and settings retains a record whose now - timestamp
\* exceeds the TTL configured for that store.
C28_PeriodicSweepCoversEveryTTL ==
  [][CleanupExpiredData
       => \A k \in DOMAIN idb' :
            ~(dbClock - idb'[k].timestamp > ConfiguredTTL(storeName))]_vars

\* The fields of the records of a store apart from their timestamps.
Fields(records) == [k \in DOMAIN records |-> records[k].data]

\* C24: a pull of a store that follows at once a fulfilled pull of the same
\* remote snapshot, and whose fetch was answered well, fulfils too and
\* leaves the number of records and their fields apart from the timestamp
\* as they were.
C24_PullIsIdempotent ==
  ( /\ syncRun.op = "pull"
    /\ syncRun.repeat
    /\ syncRun.pc \in {"done", "failed"}
    /\ syncRun.error \in {"", "ConstraintError", "DataError"} )
    => /\ syncRun.pc = "done"
       /\ Fields(idb) = Fields(syncRun.before)

\* C25: lastSync of a store is written only by a pull of that store that
\* fulfils, every item of its snapshot being in the store by then; a pull
\* that fails and a push leave it as it was.
C25_WatermarkOnlyOnFullSuccess ==
  [][/\ syncMeta' # syncMeta
          => /\ syncRun.op = "pull"
             /\ syncRun'.pc = "done"
             /\ DOMAIN syncMeta' = DOMAIN syncMeta \cup {storeName}
             /\ \A i \in 1..Len(syncRun.snapshot.items) :
                  LET item == syncRun.snapshot.items[i]
                  IN  /\ item.key \in DOMAIN idb'
                      /\ idb'[item.key].data = item.data
     /\ (syncRun'.op = "push" \/ syncRun'.pc = "failed")
          => syncMeta' = syncMeta]_vars

\* C25 witness: a pull has failed at its second item, after the first was
\* stored, and the watermark of an earlier pull stands.
C25_Witness ==
  /\ syncRun.op = "pull"
  /\ syncRun.pc = "failed"
  /\ syncRun.next = 2
  /\ idb # syncRun.before
  /\ storeName \in DOMAIN syncMeta
  /\ syncMeta[storeName] < dbClock

\* C26: push sends the rows one at a time in the order getAll read them,
\* never has two sends unanswered, and at the first rejected row fails
\* with nothing sent after that row.
C26_PushSequentialFailFast ==
  syncRun.op = "push"
    => /\ syncRun.inFlight <= 1
       /\ Len(syncRun.sent) <= Len(syncRun.rows)
       /\ syncRun.sent = SubSeq(syncRun.rows, 1, Len(syncRun.sent))
       /\ syncRun.rejected # 0
            => /\ syncRun.pc = "failed"
               /\ Len(syncRun.sent) = syncRun.rejected

\* C26 witness: a push of two rows has failed at the first, the second
\* unsent.
C26_Witness ==
  /\ syncRun.op = "push"
  /\ syncRun.pc = "failed"
  /\ syncRun.rejected = 1
  /\ Len(syncRun.rows) = 2
  /\ Len(syncRun.sent) = 1

\* The words of the text fields of a product, lower-cased.
Words(product) ==
  UNION {Range(Split(ToLowerCase(text))) :
           text \in {product.TenSanPham, product.MoTa, product.Brand, product.Group}}
    \ {<<>>}

\* C29: search(query) returns a product when the lower-cased query equals
\* one of the terms of its search index, and does not return a product in
\* which the query occurs only as a proper part of a longer word.
C29_SearchMatchesWholeTokens ==
  searchRun.pc = "answered"
    => LET queryLower == ToLowerCase(searchRun.query)
       IN  /\ queryLower \in searchRun.searchIndex => searchRun.returned
           /\ ( /\ queryLower # <<>>
                /\ Split(queryLower) = <<queryLower>>
                /\ queryLower \notin Words(searchRun.product)
                /\ \E word \in Words(searchRun.product) : Includes(word, queryLower) )
                => ~searchRun.returned

\* C30: search with a query of several words separated by single spaces
\* returns every product whose name or description contains each of those
\* words as a word.
C30_SearchSeveralWords ==
  ( /\ searchRun.pc = "answered"
    /\ Len(Split(searchRun.query)) > 1
    /\ \A word \in Range(Split(searchRun.query)) :
         /\ word # <<>>
         /\ \/ word \in Range(Split(searchRun.product.TenSanPham))
            \/ word \in Range(Split(searchRun.product.MoTa)) )
    => searchRun.returned

\* C31: every enqueue by API.saveOfflineOrder that reaches the object store
\* stores a row whose id is strictly greater than the id of every row stored
\* before it; none is rejected because its id is taken, also when two
\* enqueues read the same clock value.
C31_EnqueueIdsMonotonic ==
  [][\A c \in CallIds, t \in 0..MaxTime :
       CreateOrderFails(c, t, TRUE)
         => \E row \in pending' \ pending :
              /\ row.data = OrderData(c)
              /\ \A r \in added : row.id > r.id]_vars

\* C32: when two Store.update calls on one key, writing different fields,
\* were in progress at the same time and both have fulfilled, the stored
\* record has the fields of both updates and the memory cache holds the
\* record the object store holds.
C32_ConcurrentUpdatesBothKept ==
  ( /\ \A c \in Callers : updating.calls[c].pc = "done"
    /\ \A c \in Callers : updating.calls[c].concurrent
    /\ updating.calls[1].key = updating.calls[2].key )
    => LET key == updating.calls[1].key
       IN  /\ \A c \in Callers : \A name \in DOMAIN updating.calls[c].updates :
                idb[key].data[name] = updating.calls[c].updates[name]
           /\ memoryCache[key] = idb[key]

\* C33: when cache-first handlers of v2.0 that insert different new images
\* into the image namespace at its ceiling were in progress at the same
\* time and all have completed, the namespace holds exactly maxItems
\* entries, the newly inserted ones among them, and only the oldest-inserted
\* entries are gone.
C33_ConcurrentInsertsKeepCeiling ==
  ( /\ variant = "v20"
    /\ Quiescent
    /\ ~orderly
    /\ nImages > CACHE_LIMITS.IMAGES
    /\ nPuts = nImages - WarmImages(variant, TRUE) )
    => /\ Len(Entries(caches, CACHES.IMAGES)) = CACHE_LIMITS.IMAGES
       /\ Range(Entries(caches, CACHES.IMAGES))
            = {Entry(ImageUrl(i)) : i \in (nImages - CACHE_LIMITS.IMAGES + 1)..nImages}

\* C34: in the v2.1 worker a strategy answers a request from the cache only
\* with the entry of the namespace it was called with, never with a
\* response that only another namespace holds.
C34_StrategyReadsItsOwnNamespace ==
  [][\A i \in 1..Len(handlings') :
       ( /\ variant = "v21"
         /\ handlings'[i].result.kind = "response"
         /\ handlings'[i].result.source = "cache"
         /\ i <= Len(handlings) => handlings[i].result.kind = "pending" )
         => handlings'[i].result.resp
              = MatchResponse(Entries(caches, handlings'[i].route.cacheName),
                              handlings'[i].req.url)]_vars

\* C35: in every store, when pull meets an item of an array snapshot whose
\* key is taken and no request on the store fails for another reason, the
\* pull goes on, and the stored record carries the item's fields.
C35_PullUpdatesOnCollision ==
  [][\A storeError \in StoreErrors :
       ( /\ PullItem(storeError)
         /\ storeError = ""
         /\ syncRun.snapshot.array
         /\ syncRun.snapshot.items[syncRun.next].key \in DOMAIN idb )
         => /\ syncRun'.pc # "failed"
            /\ idb'[syncRun.snapshot.items[syncRun.next].key].data
                 = syncRun.snapshot.items[syncRun.next].data]_vars

\* C36: the number of entries of the memory cache stays below the number
\* of distinct keys that are read, so that a fixed bound holds however many
\* keys there are.
C36_MemoryCacheBounded == Cardinality(DOMAIN memoryCache) < Cardinality(Keys)

\* C39: every key the store held when a pull was called is still held
\* while the pull runs and after it has fulfilled or failed.
C39_PullNeverDeletes ==
  syncRun.op = "pull" => DOMAIN syncRun.before \subseteq DOMAIN idb

\* C39 witness: a pull has fulfilled whose snapshot lacks a key the store
\* held before, and the record under that key is still there.
C39_Witness ==
  /\ syncRun.op = "pull"
  /\ syncRun.pc = "done"
  /\ syncRun.snapshot.items # <<>>
  /\ \E k \in DOMAIN syncRun.before :
       /\ \A i \in 1..Len(syncRun.snapshot.items) : syncRun.snapshot.items[i].key # k
       /\ k \in DOMAIN idb

\* C37: a sweep leaves in each namespace it sweeps exactly the entries that
\* were stored at most maxAge before it, and a step of a fetch handling
\* removes an entry only from a namespace that is at its size limit.
C37_SweepDeletesByAge ==
  [][ /\ PeriodicCacheCleanup
        => \A name \in DOMAIN SweptNamespaces :
             Entries(caches', name)
               = SelectSeq(Entries(caches, name),
                           LAMBDA e : swClock - e.storedAt <= SweptNamespaces[name])
      /\ ~PeriodicCacheCleanup
        => \A name \in DOMAIN caches :
             \A i \in 1..Len(caches[name]) :
               \/ Match(Entries(caches', name), caches[name][i].url)
               \/ Len(caches[name]) >= CacheFirstLimit ]_vars

\* C38: once a CLEAR_CACHE or GET_CACHE_STATS message is handled, in
\* either worker, a reply was posted if the message carried a port, and the
\* handling did not fail, with or without a port.
C38_ControlMessagesReply ==
  msgRun.type \in ReplyingTypes
    => /\ msgRun.hasPort => msgRun.reply # "none"
       /\ ~msgRun.failed

\* The route the hash matches: the product route for product/<id>, the
\* route of the first word when that is a registered key, the home route
\* for a hash without words, and '/404' otherwise.
MatchingRoute(hash) ==
  LET segs == Segments(hash)
  IN  IF segs = <<>> THEN "/"
      ELSE IF segs[1] = "product" /\ Len(segs) > 1 THEN "/product/:id"
      ELSE IF RouteOfWord[segs[1]] # "" THEN RouteOfWord[segs[1]]
      ELSE "/404"

\* C40: after every handleRoute call exactly one handler was invoked, and
\* it is the handler of the route the hash matches.
C40_DispatchIsTotal ==
  navRun # NoNavigation
    => /\ Len(navRun.invoked) = 1
       /\ navRun.invoked[1].route = MatchingRoute(navRun.currentRoute)

====
